---- MODULE Spec2Model ----
(***************************************************************************)
(* A model of the Siglent oscilloscope driver (src/src/oscilloscope).      *)
(* The driver object (resource_name, timeout, _connected, _instrument,     *)
(* _rm) talks to a VISA session; every driver method is one action, and    *)
(* the instrument's answers (replies, raw blocks, transport failures) are  *)
(* inputs drawn from small sets. The dashboard (src/app.py) keeps its own   *)
(* state in session_state; its handlers are the actions of AppSpec.        *)
(***************************************************************************)
EXTENDS Integers, Sequences, FiniteSets, TLC

VARIABLES
    resource_name,  \* OscilloscopeDriver.resource_name
    timeout,        \* OscilloscopeDriver.timeout (milliseconds)
    connected,      \* OscilloscopeDriver._connected
    instrument,     \* OscilloscopeDriver._instrument: 0 is None, else an index of sessions
    rm,             \* OscilloscopeDriver._rm: 0 is None, else an index of managers
    sessions,       \* every VISA session opened so far: [resource, timeout, open]
    managers,       \* every resource manager created so far: TRUE while open
    last,           \* the call in progress at the caller: its name, input and outcome
    calls,          \* what that call did to the instrument session, in order
    result,         \* what that call returned
    trace,          \* what that call did on the way (measure_channel's bookkeeping)
    session_state   \* the dashboard's st.session_state: connected, model_type, agent,
                    \* screen_image, screen_for_ai, screen_sent

vars == <<resource_name, timeout, connected, instrument, rm, sessions, managers,
          last, calls, result, trace, session_state>>

-----------------------------------------------------------------------------
(* Python values *)

None == [none |-> TRUE]

\* a float, kept exact as the fraction n/d in lowest terms; inf is 1/0, -inf is -1/0
\* and nan is 0/0
RECURSIVE Gcd(_, _)
Gcd(a, b) == IF b = 0 THEN a ELSE Gcd(b, a % b)

Abs(x) == IF x < 0 THEN -x ELSE x

Float(n, d) ==
    IF d = 0 THEN [n |-> IF n > 0 THEN 1 ELSE IF n < 0 THEN -1 ELSE 0, d |-> 0]
    ELSE LET s == IF d < 0 THEN -1 ELSE 1
             g == Gcd(Abs(n), Abs(d))
         IN  [n |-> (s * n) \div g, d |-> (s * d) \div g]

Inf == Float(1, 0)
NaN == Float(0, 0)

FMul(a, b) == Float(a.n * b.n, a.d * b.d)
FDiv(a, b) == Float(a.n * b.d, a.d * b.n)
FAdd(a, b) == Float(a.n * b.d + b.n * a.d, a.d * b.d)
FSub(a, b) == Float(a.n * b.d - b.n * a.d, a.d * b.d)
FLess(a, b) ==
    IF a.d = 0 /\ b.d = 0 THEN a.n < 0 /\ b.n > 0 ELSE a.n * b.d < b.n * a.d
FInt(i) == Float(i, 1)

RECURSIVE Pow10(_)
Pow10(k) == IF k = 0 THEN 1 ELSE 10 * Pow10(k - 1)

\* 10^k as a float, k of either sign (1e9, 1e-6, ...)
E10(k) == IF k >= 0 THEN Float(Pow10(k), 1) ELSE Float(1, Pow10(-k))

-----------------------------------------------------------------------------
(* Python str operations used by the driver *)

Char(s, i) == SubSeq(s, i, i)

\* s.endswith(suf)
EndsWith(s, suf) ==
    /\ Len(suf) <= Len(s)
    /\ SubSeq(s, Len(s) - Len(suf) + 1, Len(s)) = suf

\* s.startswith(pre)
StartsWith(s, pre) ==
    /\ Len(pre) <= Len(s)
    /\ SubSeq(s, 1, Len(pre)) = pre

\* s.find(sub, start), 1-based; 0 when sub does not occur from start on
RECURSIVE FindFrom(_, _, _)
FindFrom(s, sub, start) ==
    IF start + Len(sub) - 1 > Len(s) THEN 0
    ELSE IF SubSeq(s, start, start + Len(sub) - 1) = sub THEN start
    ELSE FindFrom(s, sub, start + 1)

\* s.find(sub)
Find(s, sub) == FindFrom(s, sub, 1)

\* sub in s
Contains(s, sub) == Find(s, sub) # 0

\* s[:-k]
DropLast(s, k) == SubSeq(s, 1, Len(s) - k)

IsSpace(c) == c = " "

RECURSIVE LStrip(_)
LStrip(s) == IF Len(s) > 0 /\ IsSpace(Char(s, 1)) THEN LStrip(SubSeq(s, 2, Len(s))) ELSE s

RECURSIVE RStrip(_)
RStrip(s) == IF Len(s) > 0 /\ IsSpace(Char(s, Len(s))) THEN RStrip(DropLast(s, 1)) ELSE s

\* s.strip()
Strip(s) == LStrip(RStrip(s))

UpperChar(c) ==
    CASE c = "a" -> "A" [] c = "b" -> "B" [] c = "c" -> "C" [] c = "d" -> "D"
      [] c = "e" -> "E" [] c = "f" -> "F" [] c = "g" -> "G" [] c = "h" -> "H"
      [] c = "i" -> "I" [] c = "j" -> "J" [] c = "k" -> "K" [] c = "l" -> "L"
      [] c = "m" -> "M" [] c = "n" -> "N" [] c = "o" -> "O" [] c = "p" -> "P"
      [] c = "q" -> "Q" [] c = "r" -> "R" [] c = "s" -> "S" [] c = "t" -> "T"
      [] c = "u" -> "U" [] c = "v" -> "V" [] c = "w" -> "W" [] c = "x" -> "X"
      [] c = "y" -> "Y" [] c = "z" -> "Z" [] OTHER -> c

\* s.upper()
RECURSIVE Upper(_)
Upper(s) == IF Len(s) = 0 THEN s ELSE UpperChar(Char(s, 1)) \o Upper(SubSeq(s, 2, Len(s)))

\* s.split(sep): the pieces between the occurrences of the one-character sep
RECURSIVE SplitOn(_, _)
SplitOn(s, sep) ==
    LET i == Find(s, sep)
    IN  IF i = 0 THEN <<s>>
        ELSE <<SubSeq(s, 1, i - 1)>> \o SplitOn(SubSeq(s, i + 1, Len(s)), sep)

\* s.split(): the whitespace-separated words, none of them empty
SplitWords(s) == SelectSeq(SplitOn(s, " "), LAMBDA w : Len(w) > 0)

-----------------------------------------------------------------------------
(* float(str): [sign] digits [. digits] [E [sign] digits], [sign] INF, [sign] INFINITY
   or [sign] NAN in either case, else ValueError *)

ValueError == [type |-> "ValueError", msg |-> "invalid literal"]
IndexError == [type |-> "IndexError", msg |-> "list index out of range"]

DigitOf(c) ==
    CASE c = "0" -> 0 [] c = "1" -> 1 [] c = "2" -> 2 [] c = "3" -> 3 [] c = "4" -> 4
      [] c = "5" -> 5 [] c = "6" -> 6 [] c = "7" -> 7 [] c = "8" -> 8 [] c = "9" -> 9
      [] OTHER -> -1

AllDigits(s) == \A i \in 1..Len(s) : DigitOf(Char(s, i)) >= 0

RECURSIVE DigitsValue(_)
DigitsValue(s) ==
    IF Len(s) = 0 THEN 0
    ELSE 10 * DigitsValue(DropLast(s, 1)) + DigitOf(Char(s, Len(s)))

HasSign(s) == Len(s) > 0 /\ Char(s, 1) \in {"+", "-"}
Unsigned(s) == IF HasSign(s) THEN SubSeq(s, 2, Len(s)) ELSE s
SignOf(s) == IF Len(s) > 0 /\ Char(s, 1) = "-" THEN -1 ELSE 1

ParseFloat(str) ==
    LET s    == Upper(Strip(str))
        ePos == Find(s, "E")
        mant == Unsigned(IF ePos = 0 THEN s ELSE SubSeq(s, 1, ePos - 1))
        expo == IF ePos = 0 THEN "0" ELSE SubSeq(s, ePos + 1, Len(s))
        dot  == Find(mant, ".")
        ip   == IF dot = 0 THEN mant ELSE SubSeq(mant, 1, dot - 1)
        fp   == IF dot = 0 THEN "" ELSE SubSeq(mant, dot + 1, Len(mant))
        ok   == /\ AllDigits(ip) /\ AllDigits(fp) /\ Len(ip) + Len(fp) > 0
                /\ Len(Unsigned(expo)) > 0 /\ AllDigits(Unsigned(expo))
        m    == SignOf(s) * DigitsValue(ip \o fp)
        e    == SignOf(expo) * DigitsValue(Unsigned(expo)) - Len(fp)
    IN  IF Unsigned(s) \in {"INF", "INFINITY"} THEN FMul(FInt(SignOf(s)), Inf)
        ELSE IF Unsigned(s) = "NAN" THEN NaN
        ELSE IF ok THEN FMul(FInt(m), E10(e))
        ELSE ValueError

-----------------------------------------------------------------------------
(* OscilloscopeDriver._parse_measurement *)

\* the unit suffix handled first: <<suffix, power of ten>>
UnitSuffixes == <<
    <<"GHZ", 9>>, <<"MHZ", 6>>, <<"KHZ", 3>>, <<"HZ", 0>>, <<"V", 0>>, <<"S", 0>> >>

\* the SI prefix handled next
SIPrefixes == <<
    <<"G", 9>>, <<"M", 6>>, <<"K", 3>>, <<"U", -6>>, <<"N", -9>> >>

\* the first branch of an if/elif chain of endswith tests that applies: its index, or 0
FirstSuffix(s, table) ==
    LET hits == {i \in 1..Len(table) : EndsWith(s, table[i][1])}
    IN  IF hits = {} THEN 0 ELSE CHOOSE i \in hits : \A j \in hits : i <= j

\* <<what is left of s, power of ten>> after one if/elif chain
StripSuffix(s, table) ==
    LET i == FirstSuffix(s, table)
    IN  IF i = 0 THEN <<s, 0>> ELSE <<DropLast(s, Len(table[i][1])), table[i][2]>>

\* an exception as a value: what a try body hands to its except clauses
IsException(v) == "type" \in DOMAIN v

\* lines 333-375, the body of the try: the float, or the exception raised
parse_measurement_try(value_str) ==
    LET parts == SplitOn(value_str, ",")
        v1   == IF Contains(value_str, ",") THEN parts[2] ELSE value_str
        v2   == Upper(Strip(v1))
        u    == StripSuffix(v2, UnitSuffixes)
        p    == StripSuffix(u[1], SIPrefixes)
        f    == ParseFloat(p[1])
    IN  IF Contains(value_str, ",") /\ Len(parts) < 2 THEN IndexError
        ELSE IF IsException(f) THEN f
        ELSE FMul(f, E10(u[2] + p[2]))

\* the handler that lets ValueError through
parse_measurement_except_index_only(r) ==
    IF IsException(r) /\ r.type \in {"IndexError"} THEN None ELSE r

\* lines 377-378: except (ValueError, IndexError): return None
parse_measurement_except(r) ==
    IF IsException(r) /\ r.type \in {"ValueError", "IndexError"} THEN None ELSE r

_parse_measurement(value_str) == parse_measurement_except(parse_measurement_try(value_str))

-----------------------------------------------------------------------------
(* Exceptions *)

OscilloscopeError(msg) == [type |-> "OscilloscopeError", msg |-> msg]
NotConnected == OscilloscopeError("Not connected to oscilloscope")

\* what the VISA library raises: an I/O failure, a use of a closed session
VisaIOError == [type |-> "VisaIOError", msg |-> "VI_ERROR_TMO"]
InvalidSession == [type |-> "InvalidSession", msg |-> "Invalid session handle"]
\* what Python raises for self._instrument.timeout while self._instrument is None
AttributeError == [type |-> "AttributeError", msg |-> "NoneType has no attribute timeout"]
TypeError == [type |-> "TypeError", msg |-> "unsupported operand type"]

-----------------------------------------------------------------------------
(* The instrument's side of one call: what it answers and where it fails *)

Ok(text) == [err |-> FALSE, text |-> text]
Fails == [err |-> TRUE, text |-> ""]

\* the reply to a query command; a command the input does not mention is answered
\* with an empty line
Reply(env, command) ==
    IF command \in DOMAIN env.reply THEN env.reply[command] ELSE Ok("")

-----------------------------------------------------------------------------
(* The driver while a method runs: its fields, the log of what it did to the
   session, the value in hand and the exception in flight *)

Machine ==
    [connected |-> connected, instrument |-> instrument, rm |-> rm,
     sessions |-> sessions, managers |-> managers,
     calls |-> <<>>, ret |-> None, exc |-> None, trace |-> None]

Raised(m) == m.exc # None
Raise(m, e) == [m EXCEPT !.exc = e]
Caught(m) == [m EXCEPT !.exc = None]
Ret(m, v) == [m EXCEPT !.ret = v]
Log(m, call, arg) == [m EXCEPT !.calls = Append(@, [call |-> call, arg |-> arg])]

SessionOpen(m) == m.instrument # 0 /\ m.sessions[m.instrument].open

\* self._instrument.timeout
GetTimeout(m) ==
    IF Raised(m) THEN m
    ELSE IF m.instrument = 0 THEN Raise(m, AttributeError)
    ELSE IF ~SessionOpen(m) THEN Raise(Log(m, "get_timeout", ""), InvalidSession)
    ELSE Ret(Log(m, "get_timeout", ""), m.sessions[m.instrument].timeout)

\* self._instrument.timeout = value
SetTimeout(m, value) ==
    IF Raised(m) THEN m
    ELSE IF m.instrument = 0 THEN Raise(m, AttributeError)
    ELSE IF ~SessionOpen(m) THEN Raise(Log(m, "set_timeout", ToString(value)), InvalidSession)
    ELSE [Log(m, "set_timeout", ToString(value))
             EXCEPT !.sessions[m.instrument].timeout = value]

\* OscilloscopeDriver.write
write(m, command, env) ==
    IF Raised(m) THEN m
    ELSE IF ~m.connected \/ m.instrument = 0 THEN Raise(m, NotConnected)
    ELSE IF ~SessionOpen(m)
         THEN Raise(Log(m, "write", command),
                    OscilloscopeError("Write failed: " \o InvalidSession.msg))
    ELSE IF command \in env.wfail
         THEN Raise(Log(m, "write", command),
                    OscilloscopeError("Write failed: " \o VisaIOError.msg))
    ELSE Ret(Log(m, "write", command), None)

\* OscilloscopeDriver.query
query(m, command, env) ==
    IF Raised(m) THEN m
    ELSE IF ~m.connected \/ m.instrument = 0 THEN Raise(m, NotConnected)
    ELSE IF ~SessionOpen(m)
         THEN Raise(Log(m, "query", command),
                    OscilloscopeError("Query failed: " \o InvalidSession.msg))
    ELSE IF Reply(env, command).err
         THEN Raise(Log(m, "query", command),
                    OscilloscopeError("Query failed: " \o VisaIOError.msg))
    ELSE Ret(Log(m, "query", command), Strip(Reply(env, command).text))

\* OscilloscopeDriver.read_raw
read_raw(m, env) ==
    IF Raised(m) THEN m
    ELSE IF ~m.connected \/ m.instrument = 0 THEN Raise(m, NotConnected)
    ELSE IF ~SessionOpen(m)
         THEN Raise(Log(m, "read_raw", ""),
                    OscilloscopeError("Read raw failed: " \o InvalidSession.msg))
    ELSE IF env.raw.err
         THEN Raise(Log(m, "read_raw", ""),
                    OscilloscopeError("Read raw failed: " \o VisaIOError.msg))
    ELSE Ret(Log(m, "read_raw", ""), env.raw.data)

-----------------------------------------------------------------------------
(* SCPICommands and format_command *)

\* the templates the driver uses
SCPICommands ==
    [IDENTIFY |-> "*IDN?", RESET |-> "*RST", CLEAR_STATUS |-> "*CLS",
     CHANNEL_TRACE |-> "C{ch}:TRA {state}",
     CHANNEL_VDIV |-> "C{ch}:VDIV {value}",
     CHANNEL_OFFSET |-> "C{ch}:OFST {value}",
     CHANNEL_COUPLING |-> "C{ch}:CPL {mode}",
     CHANNEL_PROBE |-> "C{ch}:ATTN {ratio}",
     CHANNEL_BWLIMIT |-> "C{ch}:BWL {state}",
     TIME_DIV |-> "TDIV {value}", TIME_DELAY |-> "TRDL {value}",
     TRIGGER_SELECT |-> "TRSE {type},SR,C{ch},{slope},OFF",
     TRIGGER_MODE |-> "TRMD {mode}",
     TRIGGER_LEVEL |-> "C{ch}:TRLV {level}",
     TRIGGER_HOLDOFF |-> "TRHLD {time}",
     MEASURE_FREQ |-> "CYMOMETER?",
     MEASURE_PKPK |-> "C{ch}:PAVA? PKPK", MEASURE_AMPL |-> "C{ch}:PAVA? AMPL",
     MEASURE_MAX |-> "C{ch}:PAVA? MAX", MEASURE_MIN |-> "C{ch}:PAVA? MIN",
     MEASURE_MEAN |-> "C{ch}:PAVA? MEAN", MEASURE_RMS |-> "C{ch}:PAVA? RMS",
     WAVEFORM_DATA |-> "C{ch}:WF? DAT2",
     ARM_ACQUISITION |-> "ARM", STOP_ACQUISITION |-> "STOP", AUTO_SETUP |-> "ASET"]

\* str.format with keyword arguments: every {name} of the template is replaced by the
\* text of the argument called name; kwargs holds the str() of each argument
\* the template sent as it stands, its fields unfilled
format_command_unfilled(template, kwargs) == template

RECURSIVE format_command(_, _)
format_command(template, kwargs) ==
    LET open == Find(template, "{")
        close == FindFrom(template, "}", open + 1)
    IN  IF open = 0 THEN template
        ELSE SubSeq(template, 1, open - 1)
             \o kwargs[SubSeq(template, open + 1, close - 1)]
             \o format_command(SubSeq(template, close + 1, Len(template)), kwargs)

-----------------------------------------------------------------------------
(* connect and disconnect *)

\* OscilloscopeDriver.connect, lines 62-79: the body of the try
connect_try(m, env) ==
    IF ~env.rm_ok THEN Raise(m, VisaIOError)
    ELSE
    LET m1 == [m EXCEPT !.managers = Append(@, TRUE), !.rm = Len(m.managers) + 1]
    IN  IF ~env.open_ok THEN Raise(Log(m1, "open_resource", resource_name), VisaIOError)
        ELSE
        LET m2 == [Log(m1, "open_resource", resource_name)
                      EXCEPT !.sessions = Append(@, [resource |-> resource_name,
                                                     timeout |-> 0, open |-> TRUE]),
                             !.instrument = Len(m1.sessions) + 1]
            m3 == SetTimeout(m2, timeout)
            m4 == [m3 EXCEPT !.connected = TRUE]
        IN  query(m4, SCPICommands.IDENTIFY, env)

\* connect without the rollback of line 82
connect_no_rollback(m, env) ==
    IF Raised(connect_try(m, env))
    THEN Raise(connect_try(m, env),
               OscilloscopeError("Connection failed: " \o connect_try(m, env).exc.msg))
    ELSE Ret(connect_try(m, env), None)

\* OscilloscopeDriver.connect
connect(m, env) ==
    LET t == connect_try(m, env)
    IN  IF Raised(t)
        THEN Raise([t EXCEPT !.connected = FALSE],
                   OscilloscopeError("Connection failed: " \o t.exc.msg))
        ELSE Ret(t, None)

\* OscilloscopeDriver.disconnect
disconnect(m, env) ==
    LET m1 == IF m.instrument = 0 THEN m
              ELSE IF ~SessionOpen(m) THEN Log(m, "close", "")
              ELSE IF ~env.close_ok THEN Raise(Log(m, "close", ""), VisaIOError)
              ELSE [Log(m, "close", "") EXCEPT !.sessions[m.instrument].open = FALSE]
        m2 == IF Raised(m1) \/ m1.rm = 0 THEN m1
              ELSE IF ~m1.managers[m1.rm] THEN m1
              ELSE IF ~env.rm_close_ok THEN Raise(m1, VisaIOError)
              ELSE [m1 EXCEPT !.managers[m1.rm] = FALSE]
    IN  IF Raised(m2) THEN m2 ELSE Ret([m2 EXCEPT !.connected = FALSE], None)

\* OscilloscopeDriver.__enter__; the driver returned is the one entered
__enter__(m, env) == IF ~m.connected THEN connect(m, env) ELSE Ret(m, None)

\* OscilloscopeDriver.__exit__
__exit__(m, env) ==
    LET d == disconnect(m, env)
    IN  IF Raised(d) THEN d ELSE Ret(d, FALSE)

-----------------------------------------------------------------------------
(* Python bytes, as the sequence of their values 0..255 *)

Ord(c) ==
    CASE c = "0" -> 48 [] c = "1" -> 49 [] c = "2" -> 50 [] c = "3" -> 51 [] c = "4" -> 52
      [] c = "5" -> 53 [] c = "6" -> 54 [] c = "7" -> 55 [] c = "8" -> 56 [] c = "9" -> 57
      [] c = " " -> 32 [] c = "#" -> 35 [] c = "+" -> 43 [] c = "," -> 44 [] c = "-" -> 45
      [] c = ":" -> 58 [] c = "A" -> 65 [] c = "B" -> 66 [] c = "C" -> 67 [] c = "D" -> 68
      [] c = "F" -> 70 [] c = "M" -> 77 [] c = "T" -> 84 [] c = "W" -> 87 [] c = "X" -> 88
      [] OTHER -> 63

\* b"..." for an ASCII literal
Bytes(s) == [i \in 1..Len(s) |-> Ord(Char(s, i))]

\* data[a:b] with Python's rules for indices that are negative or past the end
PyIndex(len, i) == IF i < 0 THEN (IF len + i < 0 THEN 0 ELSE len + i)
                   ELSE (IF i > len THEN len ELSE i)
PySlice(data, a, b) == SubSeq(data, PyIndex(Len(data), a) + 1, PyIndex(Len(data), b))

RECURSIVE DigitBytesValue(_)
DigitBytesValue(ds) ==
    IF Len(ds) = 0 THEN 0
    ELSE 10 * DigitBytesValue(DropLast(ds, 1)) + (ds[Len(ds)] - Ord("0"))

\* int(b"..."): blanks around, a sign, decimal digits; anything else (error) is a
\* ValueError
ParseInt(bs) ==
    LET isBlank(b) == b \in {32, 9, 10, 13}
        core  == SelectSeq(bs, LAMBDA b : ~isBlank(b))
        inner == \A i \in 1..Len(bs) : isBlank(bs[i]) =>
                    (\A j \in 1..i : isBlank(bs[j])) \/ (\A j \in i..Len(bs) : isBlank(bs[j]))
        neg   == Len(core) > 0 /\ core[1] = 45
        body  == IF Len(core) > 0 /\ core[1] \in {43, 45} THEN Tail(core) ELSE core
    IN  IF inner /\ Len(body) > 0 /\ \A i \in 1..Len(body) : body[i] \in 48..57
        THEN [error |-> FALSE, value |-> IF neg THEN -DigitBytesValue(body)
                                         ELSE DigitBytesValue(body)]
        ELSE [error |-> TRUE, value |-> 0]

\* the bytes read as unsigned
Int8_unsigned(b) == b

\* np.frombuffer(..., dtype=np.int8): one signed value per byte
Int8(b) == IF b >= 128 THEN b - 256 ELSE b

-----------------------------------------------------------------------------
(* capture_screen *)

\* try ... finally: the finally block ran from the state the body left, fin is the
\* driver after it; an exception of the finally block replaces the body's
Finally(body, fin) ==
    IF Raised(fin) THEN fin ELSE [fin EXCEPT !.exc = body.exc, !.ret = body.ret]

\* the timeout capture_screen reads under, line 395
ScreenTimeout == 10000

\* lines 406-408
screen_except(body) ==
    IF Raised(body)
    THEN Raise(body, OscilloscopeError("Screen capture failed: " \o body.exc.msg))
    ELSE body

\* capture_screen without the finally block
screen_no_restore(handled, old_timeout) == handled

\* lines 409-410: the finally block
screen_finally(handled, old_timeout) ==
    Finally(handled, SetTimeout(Caught(handled), old_timeout))

\* lines 393-410, m0 the driver after old_timeout was read
screen_from(m0, env) ==
    IF Raised(m0) THEN m0
    ELSE screen_finally(
            screen_except(read_raw(write(SetTimeout(m0, ScreenTimeout), "SCDP", env), env)),
            m0.ret)

\* OscilloscopeDriver.capture_screen
capture_screen(m, env) == screen_from(GetTimeout(m), env)

-----------------------------------------------------------------------------
(* capture_waveform *)

\* the timeout capture_waveform reads under, line 451
WaveformTimeout == 60000

\* ADC counts per division, line 538
CountsPerDiv == 25

\* the lookup with its thresholds exclusive
SparseMode_exclusive(num_points) ==
    IF num_points < 200 THEN 10
    ELSE IF num_points < 500 THEN 6
    ELSE IF num_points < 1000 THEN 4
    ELSE 2

\* lines 432-439
SparseMode(num_points) ==
    IF num_points <= 200 THEN 10
    ELSE IF num_points <= 500 THEN 6
    ELSE IF num_points <= 1000 THEN 4
    ELSE 2

WFSU(sparse_mode) == "WFSU SP," \o ToString(sparse_mode) \o ",NP,0,FP,0"

\* lines 538-540: ADC counts to volts; vdiv None is a TypeError once there is a sample
waveform_volts(q, values, vdiv) ==
    IF vdiv = None /\ Len(values) > 0 THEN Raise(q, TypeError)
    ELSE Ret(q, [i \in 1..Len(values) |->
                    FMul(FDiv(FInt(values[i]), FInt(CountsPerDiv)), vdiv)])

\* lines 533-534: the scale from the reply to "C1:VDIV?"; q is the driver after the query
waveform_scale(q, values) ==
    IF Raised(q) THEN q
    ELSE IF q.ret = "" THEN waveform_volts(q, values, FInt(1))
    ELSE IF Len(SplitWords(q.ret)) < 2 THEN Raise(q, IndexError)
    ELSE waveform_volts(q, values, _parse_measurement(SplitWords(q.ret)[2]))

\* lines 519-528: the block after the "#9" marker found at header_start (0-based)
waveform_block(m, raw_data, header_start, byte_count, env) ==
    IF byte_count.error THEN Raise(m, ValueError)
    ELSE waveform_scale(
            query(m, "C1:VDIV?", env),
            [i \in 1..Len(PySlice(raw_data, header_start + 11,
                                  header_start + 11 + byte_count.value)) |->
                Int8(PySlice(raw_data, header_start + 11,
                             header_start + 11 + byte_count.value)[i])])

\* OscilloscopeDriver._parse_waveform_data, lines 511-543: the body of the try
parse_waveform_try(m, raw_data, env) ==
    IF Len(raw_data) > 0 /\ raw_data[1] = Ord("C") /\ Contains(raw_data, Bytes("#9"))
    THEN waveform_block(m, raw_data, Find(raw_data, Bytes("#9")) - 1,
                        ParseInt(PySlice(raw_data, Find(raw_data, Bytes("#9")) + 1,
                                         Find(raw_data, Bytes("#9")) + 10)),
                        env)
    ELSE Ret(m, << >>)

\* the decoder without its except clause
parse_waveform_uncaught(t) == t

\* lines 545-547: any exception gives the empty array
parse_waveform_except(t) == IF Raised(t) THEN Ret(Caught(t), << >>) ELSE t

\* OscilloscopeDriver._parse_waveform_data
_parse_waveform_data(m, raw_data, env) ==
    parse_waveform_except(parse_waveform_try(m, raw_data, env))

\* the placeholder sample rate 1e9, line 490
SampleRateExp == 9

\* lines 432-466: the body of the try, m0 the driver after old_timeout was read
capture_transfer(m0, channel, num_points, env) ==
    read_raw(
        write(SetTimeout(write(write(m0, WFSU(SparseMode(num_points)), env),
                               "MSIZ 7K", env),
                         WaveformTimeout),
              format_command(SCPICommands.WAVEFORM_DATA, [ch |-> ToString(channel)]), env),
        env)

\* lines 468-470
capture_except(body) ==
    IF Raised(body)
    THEN Raise(body, OscilloscopeError("Waveform capture timeout or error: " \o body.exc.msg))
    ELSE body

\* the cleanup write outside its try statement
capture_cleanup_raises(restored, env) ==
    IF Raised(restored) THEN restored ELSE write(restored, WFSU(0), env)

\* lines 474-478: the sparse mode is turned off, whatever that write does
capture_cleanup(restored, env) ==
    IF Raised(restored) THEN restored ELSE Caught(write(restored, WFSU(0), env))

\* lines 471-478: the finally block
capture_finally(handled, old_timeout, env) ==
    Finally(handled, capture_cleanup(SetTimeout(Caught(handled), old_timeout), env))

\* the time axis one point longer than the samples
capture_result_long_axis(q, channel, data_points) ==
    IF Raised(q) THEN q
    ELSE Ret(q, [channel |-> channel,
                 num_points |-> Len(data_points),
                 sample_rate |-> E10(SampleRateExp),
                 voltage_scale |-> FInt(1),
                 voltage_offset |-> FInt(0),
                 time_scale |-> FInt(1),
                 data_points |-> data_points,
                 time_points |-> [i \in 1..(Len(data_points) + 1) |->
                                     FDiv(FInt(i - 1), E10(SampleRateExp))]])

\* lines 491-502: the WaveformData returned; q is the driver after the two scale queries
capture_result(q, channel, data_points) ==
    IF Raised(q) THEN q
    ELSE Ret(q, [channel |-> channel,
                 num_points |-> Len(data_points),
                 sample_rate |-> E10(SampleRateExp),
                 voltage_scale |-> FInt(1),
                 voltage_offset |-> FInt(0),
                 time_scale |-> FInt(1),
                 data_points |-> data_points,
                 time_points |-> [i \in 1..Len(data_points) |->
                                     FDiv(FInt(i - 1), E10(SampleRateExp))]])

\* lines 486-487: p is the driver after the decoding, the samples in p.ret
capture_scales(p, channel, env) ==
    capture_result(query(query(p, format_command(SCPICommands.TIME_DIV, [value |-> "?"]), env),
                         format_command(SCPICommands.CHANNEL_VDIV,
                                        [ch |-> ToString(channel), value |-> "?"]), env),
                   channel, p.ret)

\* lines 480-502: what follows the try statement
capture_decode(fin, channel, env) ==
    IF Raised(fin) THEN fin
    ELSE capture_scales(_parse_waveform_data(fin, fin.ret, env), channel, env)

\* lines 428-502, m0 the driver after old_timeout was read
capture_from(m0, channel, num_points, env) ==
    IF Raised(m0) THEN m0
    ELSE capture_decode(
            capture_finally(capture_except(capture_transfer(m0, channel, num_points, env)),
                            m0.ret, env),
            channel, env)

\* OscilloscopeDriver.capture_waveform
capture_waveform(m, channel, num_points, env) ==
    capture_from(GetTimeout(m), channel, num_points, env)

-----------------------------------------------------------------------------
(* measure_channel *)

\* Measurements(channel=channel)
NewMeasurements(channel) ==
    [channel |-> channel, frequency |-> None, period |-> None, peak_to_peak |-> None,
     amplitude |-> None, maximum |-> None, minimum |-> None, mean |-> None, rms |-> None,
     rise_time |-> None, fall_time |-> None, positive_width |-> None,
     negative_width |-> None]

\* measurement_funcs, lines 286-293
measurement_funcs == <<
    <<"peak_to_peak", SCPICommands.MEASURE_PKPK>>,
    <<"amplitude", SCPICommands.MEASURE_AMPL>>,
    <<"maximum", SCPICommands.MEASURE_MAX>>,
    <<"minimum", SCPICommands.MEASURE_MIN>>,
    <<"mean", SCPICommands.MEASURE_MEAN>>,
    <<"rms", SCPICommands.MEASURE_RMS>> >>

\* numpy reductions over a non-empty array of floats
RECURSIVE NpSum(_)
NpSum(data) == IF Len(data) = 0 THEN FInt(0) ELSE FAdd(data[1], NpSum(Tail(data)))
NpMax(data) == CHOOSE x \in {data[i] : i \in 1..Len(data)} :
                   \A i \in 1..Len(data) : ~FLess(x, data[i])
NpMin(data) == CHOOSE x \in {data[i] : i \in 1..Len(data)} :
                   \A i \in 1..Len(data) : ~FLess(data[i], x)
NpMean(data) == FDiv(NpSum(data), FInt(Len(data)))
NpSquare(data) == [i \in 1..Len(data) |-> FMul(data[i], data[i])]
\* np.sqrt(x), kept as the root of the exact x
NpSqrt(x) == [sqrt |-> x]

\* the point count measure_channel asks of capture_waveform, line 311
FallbackPoints == 1000

\* a Python float used as a condition: None and 0.0 are false
Truthy(v) == v # None /\ (v.n # 0 \/ v.d = 0)

\* the state of measure_channel as it runs
MeasureState(m, measurements) ==
    [m |-> m, measurements |-> measurements, pava_worked |-> FALSE, parsed |-> {},
     after_loop |-> None, captures |-> 0, waveform |-> None]

\* a frequency of 0 taken for no frequency
set_frequency_zero_absent(st, frequency) ==
    [st EXCEPT !.measurements.frequency = IF Truthy(frequency) THEN frequency ELSE None,
               !.measurements.period =
                    IF Truthy(frequency) /\ FLess(FInt(0), frequency)
                    THEN FDiv(FInt(1), frequency) ELSE None]

\* lines 278-281: frequency from the counter's second word, period from frequency
set_frequency(st, frequency) ==
    [st EXCEPT !.measurements.frequency = frequency,
               !.measurements.period =
                    IF Truthy(frequency) /\ FLess(FInt(0), frequency)
                    THEN FDiv(FInt(1), frequency) ELSE None]

\* lines 273-283: the frequency counter; q is the driver after the query
frequency_reply(st, q) ==
    IF Raised(q) THEN [st EXCEPT !.m = Caught(q)]
    ELSE IF ~Contains(q.ret, "CYMT") THEN [st EXCEPT !.m = q]
    ELSE IF Len(SplitWords(q.ret)) < 2 THEN [st EXCEPT !.m = q]
    ELSE set_frequency([st EXCEPT !.m = q], _parse_measurement(SplitWords(q.ret)[2]))

measure_frequency(st, env) == frequency_reply(st, query(st.m, SCPICommands.MEASURE_FREQ, env))

\* the loop without the sentinel test of line 299
parameter_reply_no_sentinel(st, attr_name, q) ==
    IF Raised(q) THEN [st EXCEPT !.m = Caught(q)]
    ELSE [st EXCEPT !.m = q,
                    !.measurements[attr_name] = _parse_measurement(q.ret),
                    !.pava_worked = TRUE,
                    !.parsed = @ \cup {attr_name}]

\* lines 297-305: one reply of the loop over measurement_funcs; q is the driver after
\* the query
parameter_reply(st, attr_name, q) ==
    IF Raised(q) THEN [st EXCEPT !.m = Caught(q)]
    ELSE IF Contains(q.ret, "****") THEN [st EXCEPT !.m = q]
    ELSE [st EXCEPT !.m = q,
                    !.measurements[attr_name] = _parse_measurement(q.ret),
                    !.pava_worked = TRUE,
                    !.parsed = @ \cup {attr_name}]

\* the loop without the try/except of lines 297-305: the query's error ends the method
measure_parameter_uncaught(st, attr_name, command_template, channel, env) ==
    IF Raised(st.m) THEN st
    ELSE IF Raised(query(st.m, format_command(command_template, [ch |-> ToString(channel)]), env))
    THEN [st EXCEPT !.m = query(st.m, format_command(command_template,
                                                     [ch |-> ToString(channel)]), env)]
    ELSE parameter_reply(st, attr_name,
                         query(st.m, format_command(command_template,
                                                    [ch |-> ToString(channel)]), env))

\* lines 296-305: one turn of the loop
measure_parameter(st, attr_name, command_template, channel, env) ==
    parameter_reply(st, attr_name,
                    query(st.m, format_command(command_template, [ch |-> ToString(channel)]),
                          env))

\* lines 295-305: the loop over measurement_funcs
RECURSIVE measure_loop(_, _, _, _)
measure_loop(st, funcs, channel, env) ==
    IF Len(funcs) = 0 THEN [st EXCEPT !.after_loop = st.measurements]
    ELSE measure_loop(measure_parameter(st, funcs[1][1], funcs[1][2], channel, env),
                      Tail(funcs), channel, env)

\* the statistics with the amplitude not halved
measure_from_waveform_full_swing(measurements, data) ==
    [measurements EXCEPT !.maximum = NpMax(data),
                         !.minimum = NpMin(data),
                         !.peak_to_peak = FSub(NpMax(data), NpMin(data)),
                         !.amplitude = FSub(NpMax(data), NpMin(data)),
                         !.mean = NpMean(data),
                         !.rms = NpSqrt(NpMean(NpSquare(data)))]

\* lines 314-322: the statistics of the captured samples
measure_from_waveform(measurements, data) ==
    [measurements EXCEPT !.maximum = NpMax(data),
                         !.minimum = NpMin(data),
                         !.peak_to_peak = FSub(NpMax(data), NpMin(data)),
                         !.amplitude = FDiv(FSub(NpMax(data), NpMin(data)), FInt(2)),
                         !.mean = NpMean(data),
                         !.rms = NpSqrt(NpMean(NpSquare(data)))]

\* the fallback without the try/except of lines 310-326
fallback_reply_uncaught(st, w) ==
    IF Raised(w) THEN [st EXCEPT !.m = w, !.captures = 1]
    ELSE IF Len(w.ret.data_points) = 0
    THEN [st EXCEPT !.m = w, !.captures = 1, !.waveform = w.ret]
    ELSE [st EXCEPT !.m = w, !.captures = 1, !.waveform = w.ret,
                    !.measurements = measure_from_waveform(@, w.ret.data_points)]

\* lines 311-326: w is the driver after capture_waveform
fallback_reply(st, w) ==
    IF Raised(w) THEN [st EXCEPT !.m = Caught(w), !.captures = 1]
    ELSE IF Len(w.ret.data_points) = 0
    THEN [st EXCEPT !.m = w, !.captures = 1, !.waveform = w.ret]
    ELSE [st EXCEPT !.m = w, !.captures = 1, !.waveform = w.ret,
                    !.measurements = measure_from_waveform(@, w.ret.data_points)]

\* lines 308-326: the fallback
measure_fallback(st, channel, env) ==
    IF st.pava_worked THEN st
    ELSE fallback_reply(st, capture_waveform(st.m, channel, FallbackPoints, env))

\* line 328: the record is returned; what the call did on the way is kept beside it
measure_return(st) ==
    [Ret(st.m, st.measurements) EXCEPT !.trace =
        [pava_worked |-> st.pava_worked, parsed |-> st.parsed,
         after_loop |-> st.after_loop, captures |-> st.captures,
         waveform |-> st.waveform]]

\* OscilloscopeDriver.measure_channel
measure_channel(m, channel, env) ==
    measure_return(
        measure_fallback(
            measure_loop(measure_frequency(MeasureState(m, NewMeasurements(channel)), env),
                         measurement_funcs, channel, env),
            channel, env))

-----------------------------------------------------------------------------
(* Configuration, acquisition and status methods *)

OnOff(flag) == IF flag THEN "ON" ELSE "OFF"

\* every write attempted whatever became of the earlier ones, the first failure kept
RECURSIVE write_all_keep_going(_, _, _)
write_all_keep_going(m, commands, env) ==
    IF Len(commands) = 0 THEN m
    ELSE LET q == write(Caught(m), commands[1], env)
         IN  write_all_keep_going(IF Raised(m) THEN Raise(q, m.exc) ELSE q,
                                  Tail(commands), env)

\* consecutive self.write(...) statements: the first that raises ends the method
RECURSIVE write_all(_, _, _)
write_all(m, commands, env) ==
    IF Len(commands) = 0 THEN m
    ELSE write_all(write(m, commands[1], env), Tail(commands), env)

\* consecutive self.query(...) statements, the replies gathered in order
RECURSIVE query_all(_, _, _, _)
query_all(m, commands, env, got) ==
    IF Len(commands) = 0 THEN (IF Raised(m) THEN m ELSE Ret(m, got))
    ELSE LET q == query(m, commands[1], env)
         IN  query_all(q, Tail(commands), env, IF Raised(q) THEN got ELSE Append(got, q.ret))

\* the commands of configure_channel, lines 142-162
channel_commands(config) == <<
    format_command(SCPICommands.CHANNEL_TRACE,
                   [ch |-> ToString(config.channel), state |-> OnOff(config.enabled)]),
    format_command(SCPICommands.CHANNEL_VDIV,
                   [ch |-> ToString(config.channel), value |-> config.voltage_div]),
    format_command(SCPICommands.CHANNEL_OFFSET,
                   [ch |-> ToString(config.channel), value |-> config.offset]),
    format_command(SCPICommands.CHANNEL_COUPLING,
                   [ch |-> ToString(config.channel), mode |-> config.coupling]),
    format_command(SCPICommands.CHANNEL_PROBE,
                   [ch |-> ToString(config.channel), ratio |-> ToString(config.probe_ratio)]),
    format_command(SCPICommands.CHANNEL_BWLIMIT,
                   [ch |-> ToString(config.channel), state |-> OnOff(config.bandwidth_limit)]) >>

\* OscilloscopeDriver.configure_channel
configure_channel(m, config, env) == write_all(m, channel_commands(config), env)

\* the commands of configure_timebase, lines 205-206
timebase_commands(config) ==
    << format_command(SCPICommands.TIME_DIV, [value |-> config.time_div]),
       format_command(SCPICommands.TIME_DELAY, [value |-> config.delay]) >>

\* OscilloscopeDriver.configure_timebase
configure_timebase(m, config, env) == write_all(m, timebase_commands(config), env)

\* the trigger mode sent before the trigger selection
trigger_commands_mode_first(config) ==
    << "TRMD " \o config.mode,
       "TRSE " \o config.trigger_type \o ",SR,C" \o ToString(config.source)
               \o "," \o config.slope \o ",OFF",
       "C" \o ToString(config.source) \o ":TRLV " \o config.level >>
    \o (IF config.holdoff # << >> /\ config.holdoff # << "" >>
        THEN << "TRHLD " \o config.holdoff[1] >>
        ELSE << >>)

\* the commands of configure_trigger, lines 231-250; holdoff is Optional[str], << >> for
\* None and <<text>> for a string: None and "" send no holdoff command
trigger_commands(config) ==
    << format_command(SCPICommands.TRIGGER_SELECT,
                      [type |-> config.trigger_type, ch |-> ToString(config.source),
                       slope |-> config.slope]),
       format_command(SCPICommands.TRIGGER_MODE, [mode |-> config.mode]),
       format_command(SCPICommands.TRIGGER_LEVEL,
                      [ch |-> ToString(config.source), level |-> config.level]) >>
    \o (IF config.holdoff # << >> /\ config.holdoff # << "" >>
        THEN << format_command(SCPICommands.TRIGGER_HOLDOFF, [time |-> config.holdoff[1]]) >>
        ELSE << >>)

\* OscilloscopeDriver.configure_trigger
configure_trigger(m, config, env) == write_all(m, trigger_commands(config), env)

\* OscilloscopeDriver.get_channel_config
get_channel_config(m, channel, env) ==
    LET ch == ToString(channel)
        q == query_all(m, << "C" \o ch \o ":VDIV?", "C" \o ch \o ":CPL?",
                             "C" \o ch \o ":ATTN?", "C" \o ch \o ":OFST?" >>, env, << >>)
    IN  IF Raised(q) THEN q
        ELSE Ret(q, [voltage_div |-> Strip(q.ret[1]), coupling |-> Strip(q.ret[2]),
                     probe_ratio |-> Strip(q.ret[3]), offset |-> Strip(q.ret[4])])

\* OscilloscopeDriver.get_timebase
get_timebase(m, env) ==
    LET q == query_all(m, << "TDIV?", "TRDL?" >>, env, << >>)
    IN  IF Raised(q) THEN q
        ELSE Ret(q, [time_div |-> Strip(q.ret[1]), delay |-> Strip(q.ret[2])])

\* OscilloscopeDriver.get_status
get_status(m, env) ==
    LET q == query(m, SCPICommands.IDENTIFY, env)
    IN  IF Raised(q) THEN q
        ELSE
        LET parts == SplitOn(q.ret, ",")
            part(i) == IF Len(parts) >= i THEN parts[i] ELSE "Unknown"
        IN  Ret(q, [connected |-> q.connected, model |-> part(2),
                    serial_number |-> part(3), firmware_version |-> part(4),
                    acquisition_running |-> TRUE])

\* the methods that are one self.write(...): reset, clear_status, arm_trigger,
\* stop_acquisition, auto_setup
SimpleCommands ==
    [reset |-> SCPICommands.RESET, clear_status |-> SCPICommands.CLEAR_STATUS,
     arm_trigger |-> SCPICommands.ARM_ACQUISITION,
     stop_acquisition |-> SCPICommands.STOP_ACQUISITION,
     auto_setup |-> SCPICommands.AUTO_SETUP]

-----------------------------------------------------------------------------
(* OscilloscopeAgent._set_timebase, src/src/agent/agent.py. A time in seconds is a
   decimal [m, e], the number m * 10^e with m a natural number below 10^4 *)

\* valid_values of find_nearest_valid, sorted: 1, 2 and 5 times 10^-9 .. 10^1, and 100
valid_values ==
    [i \in 1..34 |-> [m |-> <<1, 2, 5>>[((i - 1) % 3) + 1], e |-> ((i - 1) \div 3) - 9]]

\* a <= b for two times
DecLeq(a, b) ==
    LET e == IF a.e < b.e THEN a.e ELSE b.e
    IN  IF a.e - e > 4 THEN a.m = 0
        ELSE IF b.e - e > 4 THEN b.m > 0 \/ a.m = 0
        ELSE a.m * Pow10(a.e - e) <= b.m * Pow10(b.e - e)

\* min(valid_values, key=lambda x: abs(x - value)): the first of the nearest values.
\* lo values of the sorted ladder are at or below value; the last of them is returned
\* when twice the value is no more than its sum with the next one
find_nearest_valid(value) ==
    LET lo == Cardinality({i \in 1..34 : DecLeq(valid_values[i], value)})
    IN  IF lo = 0 THEN valid_values[1]
        ELSE IF lo = 34 THEN valid_values[34]
        ELSE IF DecLeq([m |-> 2 * value.m, e |-> value.e],
                       [m |-> valid_values[lo].m
                              + valid_values[lo + 1].m
                                * Pow10(valid_values[lo + 1].e - valid_values[lo].e),
                        e |-> valid_values[lo].e])
        THEN valid_values[lo] ELSE valid_values[lo + 1]

\* the end of the longest run of digits and dots of s that starts at i: ([\d.]+)
RECURSIVE NumberEnd(_, _)
NumberEnd(s, i) ==
    IF i <= Len(s) /\ (DigitOf(Char(s, i)) >= 0 \/ Char(s, i) = ".")
    THEN NumberEnd(s, i + 1) ELSE i - 1

\* a natural number below 1000 as text
NatText(n) ==
    LET d(k) == Char("0123456789", k + 1)
    IN  IF n < 10 THEN d(n)
        ELSE IF n < 100 THEN d(n \div 10) \o d(n % 10)
        ELSE d(n \div 100) \o d((n \div 10) % 10) \o d(n % 10)

\* f"{nearest_seconds:.6E}" of a value of the ladder
FormatE(v) ==
    NatText(v.m) \o ".000000E" \o (IF v.e < 0 THEN "-0" \o NatText(-v.e)
                                   ELSE "+0" \o NatText(v.e))

\* multipliers.get(unit, 1) as a power of ten, unit the match of ([MUNP]?S?) at the
\* start of rest: only NS, US and MS have a multiplier other than 1
multiplier(rest) ==
    IF StartsWith(rest, "NS") THEN -9
    ELSE IF StartsWith(rest, "US") THEN -6
    ELSE IF StartsWith(rest, "MS") THEN -3
    ELSE 0

\* float(number) * multiplier, number a run of digits and dots whose first dot is at
\* dot: the seconds, or the ValueError of float
seconds_of(number, dot, mult) ==
    IF dot = 0 THEN [m |-> DigitsValue(number), e |-> mult]
    ELSE IF Len(number) > 1 /\ AllDigits(SubSeq(number, dot + 1, Len(number)))
    THEN [m |-> DigitsValue(SubSeq(number, 1, dot - 1)
                            \o SubSeq(number, dot + 1, Len(number))),
          e |-> mult - (Len(number) - dot)]
    ELSE ValueError

\* lines 352-358: the nearest valid value as text, the value, and was_adjusted. The
\* times the calls are made with have at most two decimals of the smallest unit, so a
\* difference to the nearest value is never within the 1e-12 tolerance
convert_seconds(seconds) ==
    LET nearest == find_nearest_valid(seconds)
    IN  IF IsException(seconds) THEN seconds
        ELSE [text |-> FormatE(nearest), seconds |-> nearest,
              was_adjusted |-> ~(DecLeq(nearest, seconds) /\ DecLeq(seconds, nearest))]

\* lines 335-350: s matched by ([\d.]+)\s*([MUNP]?S?), the number ending at n; a
\* string the pattern does not match is returned as is
convert_matched(s, n) ==
    IF n = 0 THEN [text |-> s, seconds |-> s, was_adjusted |-> FALSE]
    ELSE convert_seconds(seconds_of(SubSeq(s, 1, n), Find(SubSeq(s, 1, n), "."),
                                    multiplier(LStrip(SubSeq(s, n + 1, Len(s))))))

\* convert_to_scientific of _set_timebase
convert_to_scientific(value_str) ==
    convert_matched(Strip(Upper(value_str)), NumberEnd(Strip(Upper(value_str)), 1))

\* the human-readable time of the warning, lines 370-377
readable(v) ==
    IF v.e >= 0 THEN NatText(v.m * Pow10(v.e)) \o "S"
    ELSE IF v.e >= -3 THEN NatText(v.m * Pow10(v.e + 3)) \o "MS"
    ELSE IF v.e >= -6 THEN NatText(v.m * Pow10(v.e + 6)) \o "US"
    ELSE NatText(v.m * Pow10(v.e + 9)) \o "NS"

\* lines 366-383: the time per division read back, and the message
timebase_message(q, time_div, t) ==
    IF Raised(q) THEN q
    ELSE Ret(q, [was_adjusted |-> t.was_adjusted, time_div |-> time_div,
                 nearest |-> IF t.was_adjusted THEN readable(t.seconds) ELSE "",
                 actual_tdiv |-> Strip(q.ret)])

\* lines 363-367, with the converted time per division t and delay d
set_timebase_converted(m, time_div, t, d, env) ==
    IF IsException(t) THEN Raise(m, t)
    ELSE IF IsException(d) THEN Raise(m, d)
    ELSE timebase_message(
             query(configure_timebase(m, [time_div |-> t.text, delay |-> d.text], env),
                   "TDIV?", env),
             time_div, t)

\* OscilloscopeAgent._set_timebase: both arguments are converted, the driver is
\* configured, and the time per division is read back for the message
_set_timebase(m, time_div, delay, env) ==
    set_timebase_converted(m, time_div, convert_to_scientific(time_div),
                           convert_to_scientific(delay), env)

-----------------------------------------------------------------------------
(* Bounds and inputs *)

\* connect() calls (resource managers created) in one run
MaxSessions == 2

\* OscilloscopeDriver.__init__: timeout defaults to 10000
DefaultTimeout == 10000

IdnReply == "Siglent Technologies,SDS1202X-E,SDS1EEFX803161,1.3.27"

\* no failure, an empty line for every query
QuietEnv == [wfail |-> {}, reply |-> << >>, raw |-> Fails]

\* the driver can reach the instrument: only then does the instrument's side matter
Usable == connected /\ instrument # 0 /\ sessions[instrument].open

\* the inputs of a call: all of them when the instrument is reached, one otherwise
Inputs(all, one) == IF Usable THEN all ELSE {one}

\* the channels the calls are made on
Channels == {1, 2}

\* a transport failure of one of the commands, or of none
WriteEnvs(commands) ==
    {[QuietEnv EXCEPT !.wfail = f] : f \in {{}} \cup {{commands[i]} : i \in 1..Len(commands)}}

\* every query answered with text, or one of them failing
QueryEnvs(commands, text) ==
    LET all == [c \in {commands[i] : i \in 1..Len(commands)} |-> Ok(text)]
    IN  {[QuietEnv EXCEPT !.reply = all]}
        \cup {[QuietEnv EXCEPT !.reply = [all EXCEPT ![commands[i]] = Fails]] :
                 i \in 1..Len(commands)}

\* the samples of the waveform block: ADC counts 25, -25, 50 as bytes
Payload == <<25, 231, 50>>

\* what read_raw returns after the waveform request
RawGood(ch) == Bytes("C" \o ToString(ch) \o ":WF DAT2,#9000000003") \o Payload \o <<10, 10>>

\* the block good, announcing no byte, without its marker, with a length that is no
\* number, shorter than announced, and without the text before the marker
RawReplies(ch) ==
    LET head == "C" \o ToString(ch) \o ":WF DAT2,"
        raw(data) == [err |-> FALSE, data |-> data]
    IN  {raw(RawGood(ch)),
         raw(Bytes(head \o "#9000000000") \o <<10, 10>>),
         raw(Bytes(head) \o Payload \o <<10, 10>>),
         raw(Bytes(head \o "#9XXXXXXXXX") \o Payload \o <<10, 10>>),
         raw(Bytes(head \o "#9000000005") \o Payload),
         raw(Bytes("#9000000003") \o Payload \o <<10, 10>>)}

\* the instrument's side of a capture_waveform call that succeeds
BaseCaptureEnv(ch) ==
    [wfail |-> {},
     raw   |-> [err |-> FALSE, data |-> RawGood(ch)],
     reply |-> ("C1:VDIV?" :> Ok("C1:VDIV 1.00E+00V"))
               @@ (format_command(SCPICommands.TIME_DIV, [value |-> "?"])
                      :> Ok("TDIV 1.00E-03S"))
               @@ (format_command(SCPICommands.CHANNEL_VDIV, [ch |-> ToString(ch), value |-> "?"])
                      :> Ok("C" \o ToString(ch) \o ":VDIV 1.00E+00V"))]

\* a failure of one write (of the cleanup write too) with the read good or failing;
\* every block read against every answer to the scale query of the decoder; a failure
\* of one of the two queries after the decoding
CaptureEnvs(ch, n) ==
    {[BaseCaptureEnv(ch) EXCEPT !.wfail = f, !.raw = r] :
        f \in {{}, {WFSU(SparseMode(n))}, {"MSIZ 7K"}, {WFSU(0)},
               {format_command(SCPICommands.WAVEFORM_DATA, [ch |-> ToString(ch)])}},
        r \in {[err |-> FALSE, data |-> RawGood(ch)], Fails}}
    \cup {[BaseCaptureEnv(ch) EXCEPT !.raw = r, !.reply["C1:VDIV?"] = v] :
             r \in RawReplies(ch),
             v \in {Ok("C1:VDIV 1.00E+00V"), Ok("C1:VDIV 5.00E-01V"), Ok("2.00E+00V"), Ok(""),
                    Ok("C1:VDIV OFF"), Fails}}
    \cup {[BaseCaptureEnv(ch) EXCEPT !.reply[c] = Fails] :
             c \in {format_command(SCPICommands.TIME_DIV, [value |-> "?"]),
                    format_command(SCPICommands.CHANNEL_VDIV,
                                   [ch |-> ToString(ch), value |-> "?"])}}

\* the default of capture_waveform's num_points, line 412
DefaultPoints == 1400

\* capture_waveform calls: <<channel, num_points, env>>
CaptureCalls ==
    UNION {{<<ch, DefaultPoints, env>> : env \in CaptureEnvs(ch, DefaultPoints)} :
              ch \in Channels}
    \cup {<<1, n, BaseCaptureEnv(1)>> : n \in {200, 201, 500, 501, 1000, 1001, DefaultPoints}}

\* how the instrument answers one parameter query
PavaKinds == {"value", "sentinel", "garbage", "fail"}

PavaNames ==
    [peak_to_peak |-> "PKPK", amplitude |-> "AMPL", maximum |-> "MAX",
     minimum |-> "MIN", mean |-> "MEAN", rms |-> "RMS"]
PavaValues ==
    [peak_to_peak |-> "5.00E+00V", amplitude |-> "2.50E+00V", maximum |-> "2.50E+00V",
     minimum |-> "-2.50E+00V", mean |-> "0.00E+00V", rms |-> "1.77E+00V"]
Attrs == DOMAIN PavaNames

PavaReply(ch, attr, kind) ==
    LET head == "C" \o ToString(ch) \o ":PAVA " \o PavaNames[attr] \o ","
    IN  CASE kind = "value"    -> Ok(head \o PavaValues[attr])
          [] kind = "sentinel" -> Ok(head \o "****")
          [] kind = "garbage"  -> Ok(head \o "OFF")
          [] kind = "fail"     -> Fails

FreqGood == Ok("CYMT 1.00E+03Hz")

\* the instrument's side of one measure_channel call
MeasureEnv(ch, freq, kinds, capture) ==
    LET command(i) == format_command(measurement_funcs[i][2], [ch |-> ToString(ch)])
    IN  [capture EXCEPT !.reply = @ @@ (SCPICommands.MEASURE_FREQ :> freq)
                            @@ [c \in {command(i) : i \in 1..6} |->
                                   LET i == CHOOSE i \in 1..6 : command(i) = c
                                   IN  PavaReply(ch, measurement_funcs[i][1],
                                                 kinds[measurement_funcs[i][1]])]]

\* the fallback's capture: good, the read failing, an empty decoding, a write failing
FallbackEnvs(ch) ==
    {BaseCaptureEnv(ch),
     [BaseCaptureEnv(ch) EXCEPT !.raw = Fails],
     [BaseCaptureEnv(ch) EXCEPT !.raw = [err |-> FALSE, data |-> Bytes("C1:WF DAT2,")]],
     [BaseCaptureEnv(ch) EXCEPT !.wfail = {"MSIZ 7K"}],
     [BaseCaptureEnv(ch) EXCEPT !.wfail = {WFSU(0)}]}

\* measure_channel calls: <<channel, kinds, env>>. The six parameter queries are
\* answered in every way that uses at most two kinds of answer; the fallback's capture
\* is varied under answers that give no value, the frequency counter under all values
\* and all sentinels
MeasureCalls ==
    LET call(ch, freq, kinds, capture) == <<ch, kinds, MeasureEnv(ch, freq, kinds, capture)>>
    IN  {call(1, FreqGood, k, BaseCaptureEnv(1)) :
            k \in UNION {[Attrs -> {k1, k2}] : k1, k2 \in PavaKinds}}
        \cup {call(1, FreqGood, k, c) :
                 k \in {[a \in Attrs |-> "fail"],
                        [a \in Attrs |-> IF a = "mean" THEN "fail" ELSE "sentinel"]},
                 c \in FallbackEnvs(1)}
        \cup UNION {{call(ch, FreqGood, [a \in Attrs |-> "sentinel"], c) :
                        c \in CaptureEnvs(ch, FallbackPoints)} : ch \in Channels}
        \cup {call(ch, f, [a \in Attrs |-> k], BaseCaptureEnv(ch)) :
                 ch \in Channels, k \in {"value", "sentinel"},
                 f \in {FreqGood, Ok("CYMT 0.00E+00Hz"), Ok("1.00E+03Hz"), Ok("CYMT"),
                        Ok("CYMT ****"), Ok("C1:PAVA FREQ,1000.0HZ"), Ok("CYMT INFHz"),
                        Fails}}

-----------------------------------------------------------------------------
(* The state machine *)

Idle == [op |-> "idle", args |-> << >>, env |-> None, pre |-> None, exc |-> None]

\* what the caller saw of the driver as it made the call
Pre ==
    [connected |-> connected,
     session   |-> instrument,
     open      |-> instrument # 0 /\ sessions[instrument].open,
     timeout   |-> IF instrument = 0 THEN 0 ELSE sessions[instrument].timeout,
     rm        |-> rm,
     rm_open   |-> rm # 0 /\ managers[rm]]

\* OscilloscopeDriver.__init__ called with a resource name and with or without a
\* timeout, auto_connect left false: the driver as the constructor returns
Init ==
    \E name \in {"TEST::RESOURCE"}, timeout_arg \in {<< >>, <<70000>>} :
        /\ resource_name = name
        /\ timeout = (IF timeout_arg = << >> THEN DefaultTimeout ELSE timeout_arg[1])
        /\ connected = FALSE
        /\ instrument = 0
        /\ rm = 0
        /\ sessions = << >>
        /\ managers = << >>
        /\ last = [Idle EXCEPT !.op = "__init__", !.args = <<name, timeout_arg>>]
        /\ calls = << >>
        /\ result = None
        /\ trace = None
        /\ session_state = [connected |-> FALSE, model_type |-> "claude", agent |-> << >>,
                            screen_image |-> << >>, screen_for_ai |-> << >>,
                            screen_sent |-> << >>]

\* a method called with the caller idle runs to its end: m is the driver as it returns
\* or raises
Call(op, args, env, m) ==
    /\ last = Idle
    /\ connected' = m.connected
    /\ instrument' = m.instrument
    /\ rm' = m.rm
    /\ sessions' = m.sessions
    /\ managers' = m.managers
    /\ last' = [op |-> op, args |-> args, env |-> env, pre |-> Pre, exc |-> m.exc]
    /\ calls' = m.calls
    /\ result' = IF Raised(m) THEN None ELSE m.ret
    /\ trace' = m.trace
    /\ UNCHANGED <<resource_name, timeout, session_state>>

\* the caller has the result or the exception and goes on to its next call
CallerResumes ==
    /\ last # Idle
    /\ last' = Idle
    /\ calls' = << >>
    /\ result' = None
    /\ trace' = None
    /\ UNCHANGED <<resource_name, timeout, connected, instrument, rm, sessions, managers,
                   session_state>>

Connect ==
    /\ Len(managers) < MaxSessions
    /\ \E rm_ok \in BOOLEAN, open_ok \in BOOLEAN, idn \in {Ok(IdnReply), Fails} :
          LET env == [rm_ok |-> rm_ok, open_ok |-> open_ok, wfail |-> {},
                      reply |-> (SCPICommands.IDENTIFY :> idn)]
          IN  Call("connect", << >>, env, connect(Machine, env))

Disconnect ==
    \E env \in [close_ok : BOOLEAN, rm_close_ok : BOOLEAN] :
        Call("disconnect", << >>, env, disconnect(Machine, env))

\* the with statement enters its block
Enter ==
    /\ connected \/ Len(managers) < MaxSessions
    /\ \E rm_ok \in BOOLEAN, open_ok \in BOOLEAN, idn \in {Ok(IdnReply), Fails} :
          LET env == [rm_ok |-> rm_ok \/ connected, open_ok |-> open_ok \/ connected,
                      wfail |-> {},
                      reply |-> (SCPICommands.IDENTIFY :> IF connected THEN Ok(IdnReply)
                                                          ELSE idn)]
          IN  Call("__enter__", << >>, env, __enter__(Machine, env))

\* the with statement leaves its block, normally or with the exception exc_val raised in
\* it: __exit__ is called, and when it returns false the exception goes on to the caller
Exit ==
    \E env \in [close_ok : BOOLEAN, rm_close_ok : BOOLEAN], exc_val \in {None, ValueError} :
        Call("__exit__", <<exc_val>>, env,
             IF Raised(__exit__(Machine, env)) \/ exc_val = None
                \/ __exit__(Machine, env).ret # FALSE
             THEN __exit__(Machine, env)
             ELSE Raise(__exit__(Machine, env), exc_val))

Write ==
    \E command \in {SCPICommands.RESET} :
        \E env \in Inputs({[QuietEnv EXCEPT !.wfail = f] : f \in {{}, {command}}}, QuietEnv) :
            Call("write", <<command>>, env, write(Machine, command, env))

Query ==
    \E command \in {SCPICommands.IDENTIFY} :
        \E env \in Inputs({[QuietEnv EXCEPT !.reply = (command :> r)] :
                              r \in {Ok(IdnReply), Fails}}, QuietEnv) :
            Call("query", <<command>>, env, query(Machine, command, env))

ReadRaw ==
    \E env \in Inputs({[QuietEnv EXCEPT !.raw = r] :
                          r \in {[err |-> FALSE, data |-> <<66, 77>>], Fails}}, QuietEnv) :
        Call("read_raw", << >>, env, read_raw(Machine, env))

\* reset, clear_status, arm_trigger, stop_acquisition, auto_setup
SimpleCommand ==
    \E op \in DOMAIN SimpleCommands :
        \E env \in Inputs(WriteEnvs(<<SimpleCommands[op]>>), QuietEnv) :
            Call(op, << >>, env, write(Machine, SimpleCommands[op], env))

ConfigureChannel ==
    \E config \in
          {[channel |-> 1, enabled |-> TRUE, voltage_div |-> "2V", offset |-> "0V",
            coupling |-> "D1M", probe_ratio |-> 1, bandwidth_limit |-> FALSE],
           [channel |-> 2, enabled |-> FALSE, voltage_div |-> "500MV", offset |-> "-1V",
            coupling |-> "A1M", probe_ratio |-> 10, bandwidth_limit |-> TRUE]} :
        \E env \in Inputs(WriteEnvs(channel_commands(config)), QuietEnv) :
            Call("configure_channel", <<config>>, env, configure_channel(Machine, config, env))

ConfigureTimebase ==
    \E config \in {[time_div |-> "1MS", delay |-> "0S"],
                    [time_div |-> "500US", delay |-> "-2MS"]} :
        \E env \in Inputs(WriteEnvs(timebase_commands(config)), QuietEnv) :
            Call("configure_timebase", <<config>>, env, configure_timebase(Machine, config, env))

\* the agent's set_timebase tool on the driver: set_timebase_wrapper passes the time
\* per division only, a direct call may pass a delay
SetTimebase ==
    \E time_div \in {"100US", "3MS", "7NS", "150S", "0.4NS", "1.5S", "5PS", "2 ms", "abc",
                     "1.2.3US"},
       delay \in {<< >>, <<"1MS">>, <<"-2MS">>, <<"30US">>} :
        \E env \in Inputs({[QuietEnv EXCEPT !.reply = [c \in {"TDIV?"} |-> Ok("TDIV 1.00E-04S")]],
                           [QuietEnv EXCEPT !.reply = [c \in {"TDIV?"} |-> Fails]],
                           [QuietEnv EXCEPT !.wfail = {"TRDL 1.000000E-09"}]},
                          QuietEnv) :
            Call("_set_timebase", <<time_div>> \o delay, env,
                 _set_timebase(Machine, time_div,
                               IF delay = << >> THEN "0S" ELSE delay[1], env))

ConfigureTrigger ==
    \E config \in
          {[source |-> 1, mode |-> "AUTO", trigger_type |-> "EDGE", slope |-> "POS",
            level |-> "1.5V", holdoff |-> << >>],
           [source |-> 2, mode |-> "NORM", trigger_type |-> "EDGE", slope |-> "NEG",
            level |-> "0V", holdoff |-> << "100NS" >>],
           [source |-> 1, mode |-> "SINGLE", trigger_type |-> "PULSE", slope |-> "WINDOW",
            level |-> "-1V", holdoff |-> << "" >>]} :
        \E env \in Inputs(WriteEnvs(trigger_commands(config)), QuietEnv) :
            Call("configure_trigger", <<config>>, env, configure_trigger(Machine, config, env))

GetChannelConfig ==
    \E channel \in Channels :
        \E env \in Inputs(QueryEnvs(<<"C" \o ToString(channel) \o ":VDIV?",
                                      "C" \o ToString(channel) \o ":CPL?",
                                      "C" \o ToString(channel) \o ":ATTN?",
                                      "C" \o ToString(channel) \o ":OFST?">>, "1"), QuietEnv) :
            Call("get_channel_config", <<channel>>, env, get_channel_config(Machine, channel, env))

GetTimebase ==
    \E env \in Inputs(QueryEnvs(<<"TDIV?", "TRDL?">>, "TDIV 1.00E-03S"), QuietEnv) :
        Call("get_timebase", << >>, env, get_timebase(Machine, env))

GetStatus ==
    \E env \in Inputs(QueryEnvs(<<SCPICommands.IDENTIFY>>, IdnReply), QuietEnv) :
        Call("get_status", << >>, env, get_status(Machine, env))

CaptureScreen ==
    \E env \in Inputs({[QuietEnv EXCEPT !.wfail = f, !.raw = r] :
                            f \in {{}, {"SCDP"}},
                            r \in {[err |-> FALSE, data |-> Bytes("BM")], Fails}}, QuietEnv) :
        Call("capture_screen", << >>, env, capture_screen(Machine, env))

CaptureWaveform ==
    \E c \in Inputs(CaptureCalls, <<1, DefaultPoints, BaseCaptureEnv(1)>>) :
        Call("capture_waveform", <<c[1], c[2]>>, c[3], capture_waveform(Machine, c[1], c[2], c[3]))

MeasureChannel ==
    \E c \in Inputs(MeasureCalls, <<1, [a \in Attrs |-> "value"],
                                   MeasureEnv(1, FreqGood, [a \in Attrs |-> "value"],
                                              BaseCaptureEnv(1))>>) :
        Call("measure_channel", <<c[1], c[2]>>, c[3], measure_channel(Machine, c[1], c[3]))

\* _parse_measurement called on the driver by itself, as the tests call it: it needs
\* no connection
ParseMeasurement ==
    \E value_str \in
          {"C1:PAVA FREQ,1.5KHZ", "C1:PAVA PKPK,2.5V", "500MV", "1.5MHZ",
           "", " ", "****", "C1:PAVA PKPK,****", "abc", "OFF", ",", "1,", ",1", "1,2,3",
           "V", "MV", "HZ", "-", "+", ".", "--1", "1.2.3", "1E", "1E+", "E5", "1 V",
           "0", "5.", ".5", "1.5", "-2.5", " 2.5v ", "1E-3S", "100NS", "5US", "2GHZ",
           "3K", "2G", "C1:PAVA MEAN,0.00E+00V", "1.00E+03Hz",
           "INF", "-INF", "INFINITY", "NAN", "infHz"} :
        Call("_parse_measurement", <<value_str>>, QuietEnv,
             IF IsException(_parse_measurement(value_str))
             THEN Raise(Machine, _parse_measurement(value_str))
             ELSE Ret(Machine, _parse_measurement(value_str)))

Next ==
    \/ Connect
    \/ Disconnect
    \/ Enter
    \/ Exit
    \/ Write
    \/ Query
    \/ ReadRaw
    \/ SimpleCommand
    \/ ConfigureChannel
    \/ ConfigureTimebase
    \/ SetTimebase
    \/ ConfigureTrigger
    \/ GetChannelConfig
    \/ GetTimebase
    \/ GetStatus
    \/ CaptureScreen
    \/ CaptureWaveform
    \/ MeasureChannel
    \/ ParseMeasurement
    \/ CallerResumes

Spec == Init /\ [][Next]_vars

-----------------------------------------------------------------------------
(* The dashboard, src/app.py: every run of the script handles one widget event. The
   keys of st.session_state that may be missing are sequences, << >> for a missing key;
   the dashboard's own driver is seen through session_state.connected and the outcome
   of its calls; calls is the log of the events that touch the screenshot *)

\* events logged in one run of AppSpec
MaxEvents == 4

\* one run of the script with an event that touches the screenshot: the event is logged
Handled(call, arg, state) ==
    /\ Len(calls) < MaxEvents
    /\ calls' = Append(calls, [call |-> call, arg |-> arg])
    /\ session_state' = state
    /\ UNCHANGED <<resource_name, timeout, connected, instrument, rm, sessions, managers,
                   last, result, trace>>

\* lines 92-117: the model selectbox
SelectModel ==
    /\ \E model_type \in {"claude", "huggingface"} :
          session_state' = [session_state EXCEPT !.model_type = model_type]
    /\ UNCHANGED <<resource_name, timeout, connected, instrument, rm, sessions, managers,
                   last, calls, result, trace>>

\* lines 121-159: the Connect button, with the connection and the agent made, the
\* connection failing, or the connection made and the agent's constructor raising; and
\* the Disconnect button
ConnectButtons ==
    /\ \E state \in {[session_state EXCEPT !.connected = TRUE,
                                           !.agent = <<session_state.model_type>>],
                      session_state,
                      [session_state EXCEPT !.connected = TRUE],
                      [session_state EXCEPT !.connected = FALSE, !.agent = << >>]} :
          session_state' = state
    /\ UNCHANGED <<resource_name, timeout, connected, instrument, rm, sessions, managers,
                   last, calls, result, trace>>

\* the chat handler that never marks the screenshot as sent
ChatInput_unmarked ==
    /\ session_state.connected /\ session_state.agent # << >>
    /\ IF /\ session_state.screen_for_ai # << >>
          /\ session_state.screen_sent # << TRUE >>
          /\ session_state.model_type = "claude"
       THEN Handled("execute_with_image", session_state.agent[1], session_state)
       ELSE Handled("execute", session_state.model_type, session_state)

\* lines 311-371: a chat message; the agent's execute and execute_with_image return a
\* text whatever happens (agent.py lines 502-507 and 520-593). The log holds the call
\* made, with the backend of the agent for execute_with_image (the image reaches the
\* vision model only when that is claude, agent.py line 522) and the backend selected
\* for execute
ChatInput ==
    /\ session_state.connected /\ session_state.agent # << >>
    /\ IF /\ session_state.screen_for_ai # << >>
          /\ session_state.screen_sent # << TRUE >>
          /\ session_state.model_type = "claude"
       THEN Handled("execute_with_image", session_state.agent[1],
                    [session_state EXCEPT !.screen_sent = << TRUE >>])
       ELSE Handled("execute", session_state.model_type, session_state)

\* lines 274-290: the Clear or Cancel button beside the pending screenshot
CancelScreenshot ==
    /\ session_state.screen_for_ai # << >>
    /\ Handled("clear", "", [session_state EXCEPT !.screen_for_ai = << >>,
                                                  !.screen_sent = << >>])

\* lines 489-511: the Capture Screen button; a capture that fails changes nothing
CaptureButton ==
    /\ session_state.connected
    /\ \/ Handled("capture", "", [session_state EXCEPT !.screen_image = << "img" >>,
                                                       !.screen_for_ai = << >>,
                                                       !.screen_sent = << >>])
       \/ Handled("capture failed", "", session_state)

\* lines 516-533: the Send to AI button, shown once there is a screen image
SendToAI ==
    /\ session_state.connected /\ session_state.screen_image # << >>
    /\ Handled("send_to_ai", "", [session_state EXCEPT !.screen_for_ai = << "png" >>,
                                                       !.screen_sent = << FALSE >>])

\* lines 561-567: the Clear button under the screen image
ClearCapture ==
    /\ session_state.connected /\ session_state.screen_image # << >>
    /\ Handled("clear", "", [session_state EXCEPT !.screen_image = << >>,
                                                  !.screen_for_ai = << >>,
                                                  !.screen_sent = << >>])

AppNext ==
    \/ SelectModel
    \/ ConnectButtons
    \/ ChatInput
    \/ CancelScreenshot
    \/ CaptureButton
    \/ SendToAI
    \/ ClearCapture

\* the dashboard from its first run, lines 66-73
AppSpec == Init /\ [][AppNext]_vars

-----------------------------------------------------------------------------
(* The claims *)

Called(op) == last.op = op
Failed == last.exc # None
ConnectedBefore == last.pre.connected
\* the driver was connected and its session open as the call was made
ReachedBefore == last.pre.connected /\ last.pre.open

Logged(call, arg) == \E i \in 1..Len(calls) : calls[i] = [call |-> call, arg |-> arg]
IsConnectionError(e) ==
    e.type = "OscilloscopeError" /\ StartsWith(e.msg, "Connection failed: ")

\* the methods C1 names
GuardedOps ==
    {"write", "query", "read_raw", "configure_channel", "configure_timebase",
     "configure_trigger", "get_channel_config", "get_timebase", "auto_setup", "reset",
     "arm_trigger", "stop_acquisition", "capture_screen", "capture_waveform", "get_status"}

\* C1: a method other than connect and disconnect called on a disconnected driver raises
\* the not-connected error and does nothing to the instrument session.
C1_DisconnectedFailsFast ==
    (last.op \in GuardedOps /\ ~ConnectedBefore) => (last.exc = NotConnected /\ calls = << >>)

\* C2: connect fails exactly when the manager, the opening of the session or the
\* identification query fails, then raises the connection error and leaves the flag false;
\* when it succeeds the flag is true and the session is open on the driver's resource
\* address; the identification query reaches the session whenever the session was opened,
\* which the flag set before it allows.
C2_ConnectOutcome ==
    Called("connect") =>
        /\ Failed <=> (~last.env.rm_ok \/ ~last.env.open_ok \/ last.env.reply[SCPICommands.IDENTIFY].err)
        /\ Failed => IsConnectionError(last.exc) /\ ~connected
        /\ ~Failed => /\ connected
                      /\ instrument = Len(sessions)
                      /\ sessions[instrument].open
                      /\ sessions[instrument].resource = resource_name
                      /\ Logged("open_resource", resource_name)
        /\ (last.env.rm_ok /\ last.env.open_ok) => Logged("query", SCPICommands.IDENTIFY)

\* connect failed at the identification query, the session already open
C2_Witness ==
    /\ Called("connect") /\ Failed /\ last.env.rm_ok /\ last.env.open_ok
    /\ Logged("query", SCPICommands.IDENTIFY) /\ ~connected

\* C3: disconnect does not raise on a never-connected driver nor on a driver already
\* disconnected by the call before, and after every call of disconnect the driver's
\* connected state is false.
C3_DisconnectAlwaysDisconnects ==
    Called("disconnect") =>
        /\ ~connected
        /\ (last.pre.session = 0 /\ last.pre.rm = 0) => ~Failed
        /\ (~last.pre.connected /\ ~last.pre.open /\ ~last.pre.rm_open) => ~Failed

\* C4: capture_screen and capture_waveform on a connected driver leave the session's
\* timeout as it was before the call, whether they return or raise.
C4_TimeoutRestored ==
    (last.op \in {"capture_screen", "capture_waveform"} /\ ConnectedBefore) =>
        /\ instrument = last.pre.session
        /\ sessions[instrument].timeout = last.pre.timeout
        /\ Failed => last.exc.type = "OscilloscopeError" \/ ~last.pre.open

\* capture_screen raised after it had changed the timeout
C4_Witness ==
    /\ Called("capture_screen") /\ ReachedBefore /\ Failed
    /\ last.pre.timeout # ScreenTimeout
    /\ Logged("set_timeout", ToString(ScreenTimeout))
    /\ sessions[instrument].timeout = last.pre.timeout

\* the queries of measure_channel(channel), in the order of the code
MeasureQueries(channel) ==
    <<SCPICommands.MEASURE_FREQ>>
    \o [i \in 1..6 |-> format_command(measurement_funcs[i][2], [ch |-> ToString(channel)])]

\* the first calls of the log are the seven queries of measure_channel
AllQueriesIssued ==
    /\ Len(calls) >= 7
    /\ \A i \in 1..7 : calls[i] = [call |-> "query", arg |-> MeasureQueries(last.args[1])[i]]

\* how the instrument answered the query for attr in the measure_channel call
Kind(attr) == last.args[2][attr]

\* C5: a sentinel reply to a parameter query is not parsed, leaves the field unset by the
\* loop (and unset in the record returned unless the fallback ran), raises nothing, and
\* the other queries are still issued.
C5_SentinelLeavesFieldAbsent ==
    (Called("measure_channel") /\ ReachedBefore) =>
        \A a \in Attrs : Kind(a) = "sentinel" =>
            /\ a \notin trace.parsed
            /\ trace.after_loop[a] = None
            /\ trace.pava_worked => result[a] = None
            /\ ~Failed
            /\ AllQueriesIssued

\* one reply was the sentinel, another a value that was taken
C5_Witness ==
    /\ Called("measure_channel") /\ ReachedBefore
    /\ Kind("peak_to_peak") = "sentinel" /\ Kind("maximum") = "value"
    /\ result.peak_to_peak = None /\ result.maximum # None

\* C6: the waveform capture is attempted exactly when none of the six parameter queries
\* yielded a number, and then once.
C6_FallbackIffNoValue ==
    (Called("measure_channel") /\ ReachedBefore) =>
        /\ trace.captures = 1 <=> (\A a \in Attrs : trace.after_loop[a] = None)
        /\ trace.captures <= 1

RECURSIVE SumTo(_, _)
SumTo(data, k) == IF k = 0 THEN FInt(0) ELSE FAdd(SumTo(data, k - 1), data[k])

\* the samples the fallback of the measure_channel call captured
Samples == trace.waveform.data_points

SixSentinels == \A a \in Attrs : Kind(a) = "sentinel"

FallbackCaptured ==
    /\ Called("measure_channel") /\ ReachedBefore
    /\ trace.captures = 1 /\ trace.waveform # None /\ Len(Samples) > 0

\* C7: six sentinel replies and a captured waveform that is not empty give all six fields
\* from the samples: the extrema, their difference, half of it, the mean, and the root of
\* the mean of the squares.
C7_FallbackStatistics ==
    (FallbackCaptured /\ SixSentinels) =>
        /\ \E i \in 1..Len(Samples) : result.maximum = Samples[i]
        /\ \A i \in 1..Len(Samples) : ~FLess(result.maximum, Samples[i])
        /\ \E i \in 1..Len(Samples) : result.minimum = Samples[i]
        /\ \A i \in 1..Len(Samples) : ~FLess(Samples[i], result.minimum)
        /\ result.peak_to_peak = FSub(result.maximum, result.minimum)
        /\ FAdd(result.amplitude, result.amplitude) = result.peak_to_peak
        /\ FMul(result.mean, FInt(Len(Samples))) = SumTo(Samples, Len(Samples))
        /\ FMul(result.rms.sqrt, FInt(Len(Samples)))
              = SumTo([i \in 1..Len(Samples) |-> FMul(Samples[i], Samples[i])], Len(Samples))

\* the fallback computed from samples that are not all equal
C7_Witness ==
    /\ FallbackCaptured /\ SixSentinels
    /\ FLess(result.minimum, result.maximum)
    /\ result.rms # None

\* C8: on a connected driver measure_channel does not raise; a failing query leaves its
\* field unset by the loop, the values of the other queries are taken, and all seven
\* queries are issued.
C8_MeasureNeverRaises ==
    (Called("measure_channel") /\ ConnectedBefore) =>
        /\ ~Failed
        /\ AllQueriesIssued
        /\ ReachedBefore =>
            /\ \A a \in Attrs : Kind(a) = "fail" =>
                    /\ trace.after_loop[a] = None
                    /\ trace.pava_worked => result[a] = None
            /\ \A a \in Attrs : Kind(a) = "value" =>
                    /\ trace.after_loop[a] = _parse_measurement(PavaValues[a])
                    /\ result[a] = trace.after_loop[a]
            /\ last.env.reply[SCPICommands.MEASURE_FREQ].err =>
                    (result.frequency = None /\ result.period = None)

\* a query in the middle failed and the ones after it were answered
C8_Witness ==
    /\ Called("measure_channel") /\ ReachedBefore /\ ~Failed
    /\ Kind("amplitude") = "fail" /\ Kind("rms") = "value"
    /\ result.amplitude = None /\ result.rms # None

\* C9: measure_channel on a disconnected driver raises.
C9_MeasureRaisesWhenDisconnected ==
    (Called("measure_channel") /\ ~ConnectedBefore) => Failed

\* C10: when no parameter query gave a value and the fallback's capture failed or decoded
\* no sample, measure_channel returns a record for the channel in which no field but
\* frequency and period is set.
C10_FallbackFailureIsNotAnError ==
    (/\ Called("measure_channel") /\ ReachedBefore
     /\ \A a \in Attrs : Kind(a) # "value"
     /\ trace.captures = 1
     /\ (trace.waveform = None \/ trace.waveform.num_points = 0)) =>
        /\ ~Failed
        /\ result.channel = last.args[1]
        /\ \A a \in DOMAIN result \ {"channel", "frequency", "period"} : result[a] = None

\* the capture raised, and the frequency had been measured
C10_Witness ==
    /\ Called("measure_channel") /\ ReachedBefore
    /\ trace.captures = 1 /\ trace.waveform = None
    /\ last.env.raw.err
    /\ result.frequency # None /\ result.rms = None

\* C11: in the record measure_channel returns, a voltage field is set exactly when its
\* reply held a number or the fallback computed it, a reply that parses to 0 gives the
\* field 0, and a frequency reply of 0 gives frequency 0: zero is never made absent.
C11_ZeroIsNotAbsent ==
    (Called("measure_channel") /\ ReachedBefore) =>
        /\ \A a \in Attrs :
              result[a] # None <=>
                  (Kind(a) = "value" \/ (trace.captures = 1 /\ trace.waveform # None
                                         /\ trace.waveform.num_points > 0))
        /\ Kind("mean") = "value" => result.mean = FInt(0)
        /\ last.env.reply[SCPICommands.MEASURE_FREQ] = Ok("CYMT 0.00E+00Hz") =>
              result.frequency = FInt(0)

\* the mean measured as 0 beside a field the instrument could not measure, and a
\* frequency counted as 0
C11_Witness ==
    /\ Called("measure_channel") /\ ReachedBefore
    /\ \/ Kind("mean") = "value" /\ Kind("rms") = "sentinel"
          /\ result.mean = FInt(0) /\ result.rms = None
       \/ last.env.reply[SCPICommands.MEASURE_FREQ] = Ok("CYMT 0.00E+00Hz")
          /\ result.frequency = FInt(0) /\ result.period = None

\* the reply to the frequency counter in the measure_channel call
FreqReply == last.env.reply[SCPICommands.MEASURE_FREQ]

\* C12: frequency is set only from a reply that carries the tag CYMT; period is the
\* reciprocal of frequency exactly when frequency is set and positive, is unset otherwise,
\* and is never zero.
C12_PeriodFromFrequency ==
    (Called("measure_channel") /\ ReachedBefore) =>
        /\ result.frequency # None => (~FreqReply.err /\ Contains(FreqReply.text, "CYMT"))
        /\ result.period # None <=>
              (result.frequency # None /\ FLess(FInt(0), result.frequency))
        /\ result.period # None =>
              (FMul(result.period, result.frequency) = FInt(1) /\ result.period # FInt(0))

\* C13: _parse_measurement raises for no string; the empty string, text that is no
\* number and replies that hold the sentinel give None.
C13_ParseNeverRaises ==
    Called("_parse_measurement") =>
        /\ ~Failed
        /\ last.args[1] \in {"", " ", "****", "C1:PAVA PKPK,****", "abc", "OFF", ",", "1,",
                             "V", "-", ".", "1.2.3", "1E", "E5", "--1"}
              => result = None

\* text that float() rejects went through the parser
C13_Witness ==
    /\ Called("_parse_measurement") /\ last.args[1] = "1.2.3" /\ ~Failed /\ result = None

\* C14: _parse_measurement gives the value in base units for the four replies of the
\* specification: 1500 for "C1:PAVA FREQ,1.5KHZ", 2.5 for "C1:PAVA PKPK,2.5V", 0.5 for
\* "500MV" and 1500000 for "1.5MHZ".
C14_ParseKnownFormats ==
    Called("_parse_measurement") =>
        /\ last.args[1] = "C1:PAVA FREQ,1.5KHZ" => result = FInt(1500)
        /\ last.args[1] = "C1:PAVA PKPK,2.5V" => result = Float(5, 2)
        /\ last.args[1] = "500MV" => result = Float(1, 2)
        /\ last.args[1] = "1.5MHZ" => result = FInt(1500000)

\* the capture_waveform call met no transport failure: every write, the read and the
\* queries went through
CaptureWentThrough ==
    /\ Called("capture_waveform") /\ ReachedBefore
    /\ last.env.wfail = {} /\ ~last.env.raw.err
    /\ \A c \in DOMAIN last.env.reply \ {"C1:VDIV?"} : ~last.env.reply[c].err

\* the volts per division the instrument reports to the decoder, for the replies that
\* hold a plain number
ReportedVdiv ==
    CASE last.env.reply["C1:VDIV?"] = Ok("C1:VDIV 1.00E+00V") -> FInt(1)
      [] last.env.reply["C1:VDIV?"] = Ok("C1:VDIV 5.00E-01V") -> Float(1, 2)
      [] OTHER -> None

\* C15: a reply of the instrument that holds the marker #9, nine digits of byte count and
\* that many bytes decodes to one voltage per byte, in order: the byte as a signed 8-bit
\* number, divided by 25, times the volts per division the instrument reports.
C15_DecodedVolts ==
    (/\ CaptureWentThrough
     /\ last.env.raw.data = Bytes("C" \o ToString(last.args[1]) \o ":WF DAT2,#9000000003")
                            \o Payload \o <<10, 10>>
     /\ ReportedVdiv # None) =>
        /\ ~Failed
        /\ result.data_points =
              [i \in 1..Len(Payload) |->
                  FDiv(FMul(FInt(IF Payload[i] < 128 THEN Payload[i] ELSE Payload[i] - 256),
                            ReportedVdiv),
                       FInt(25))]

\* a block with a negative sample decoded at half a volt per division
C15_Witness ==
    /\ CaptureWentThrough /\ ~Failed
    /\ ReportedVdiv = Float(1, 2)
    /\ result.num_points = 3
    /\ result.data_points[2] = Float(-1, 2)

\* the raw reply of the capture_waveform call is malformed: no marker, no text before
\* the marker, or a byte count that is no number
MalformedBlock ==
    \/ ~Contains(last.env.raw.data, Bytes("#9"))
    \/ last.env.raw.data[1] # Ord("C")
    \/ Contains(last.env.raw.data, Bytes("#9XXXXXXXXX"))

\* the reply to the decoder's scale query is not empty and holds no number to parse
UnparseableVdiv ==
    last.env.reply["C1:VDIV?"] \in {Ok("C1:VDIV OFF"), Ok("2.00E+00V")}

\* C16: a raw reply without the marker #9, with a byte count that is no number, or decoded
\* against a scale reply that cannot be parsed gives no sample and no exception:
\* capture_waveform returns a WaveformData of 0 points with empty data_points and
\* time_points.
C16_MalformedDecodesEmpty ==
    (CaptureWentThrough /\ (MalformedBlock \/ UnparseableVdiv)) =>
        /\ ~Failed
        /\ result.num_points = 0
        /\ result.data_points = << >>
        /\ result.time_points = << >>

\* a block with samples, decoded against a scale reply that is no number
C16_Witness ==
    /\ CaptureWentThrough /\ ~MalformedBlock
    /\ last.env.reply["C1:VDIV?"] = Ok("C1:VDIV OFF")
    /\ ~Failed /\ result.num_points = 0

\* C17: every WaveformData capture_waveform returns, to its caller or to the fallback
\* of measure_channel, has as many data_points as time_points, and num_points of each.
C17_WaveformLengths ==
    /\ (Called("capture_waveform") /\ ~Failed /\ ReachedBefore) =>
          /\ Len(result.data_points) = result.num_points
          /\ Len(result.time_points) = result.num_points
    /\ (Called("measure_channel") /\ ReachedBefore /\ trace.waveform # None) =>
          /\ Len(trace.waveform.data_points) = trace.waveform.num_points
          /\ Len(trace.waveform.time_points) = trace.waveform.num_points

\* a block shorter than it announces, decoded to the bytes that are there
C17_Witness ==
    /\ Called("capture_waveform") /\ ~Failed /\ ReachedBefore
    /\ Contains(last.env.raw.data, Bytes("#9000000005"))
    /\ result.num_points = 3 /\ Len(result.time_points) = 3

\* the six commands of a channel configuration, written out
ChannelWrites(c) ==
    << "C" \o ToString(c.channel) \o ":TRA " \o (IF c.enabled THEN "ON" ELSE "OFF"),
       "C" \o ToString(c.channel) \o ":VDIV " \o c.voltage_div,
       "C" \o ToString(c.channel) \o ":OFST " \o c.offset,
       "C" \o ToString(c.channel) \o ":CPL " \o c.coupling,
       "C" \o ToString(c.channel) \o ":ATTN " \o ToString(c.probe_ratio),
       "C" \o ToString(c.channel) \o ":BWL " \o (IF c.bandwidth_limit THEN "ON" ELSE "OFF") >>

\* the two commands of a timebase configuration
TimebaseWrites(c) == << "TDIV " \o c.time_div, "TRDL " \o c.delay >>

\* the three commands every trigger configuration sends
TriggerWrites(c) ==
    << "TRSE " \o c.trigger_type \o ",SR,C" \o ToString(c.source) \o "," \o c.slope \o ",OFF",
       "TRMD " \o c.mode,
       "C" \o ToString(c.source) \o ":TRLV " \o c.level >>

\* a configuration call on a reached instrument whose writes all go through
Configured(op) == Called(op) /\ ReachedBefore /\ last.env.wfail = {}

\* the arguments of the writes made during the call, in order
Written == [i \in 1..Len(calls) |-> calls[i].arg]

AllWrites == \A i \in 1..Len(calls) : calls[i].call = "write"

\* C18: the configuration methods issue commands that hold the record's field values
\* verbatim in the templates, for the record's channel: a channel configuration writes
\* C<channel>:TRA, :VDIV, :OFST, :CPL, :ATTN and :BWL with its values and nothing for
\* another channel, a timebase configuration TDIV and TRDL, a trigger configuration TRSE,
\* TRMD and C<source>:TRLV, and TRHLD with the holdoff when it sends one.
C18_CommandsCarryFields ==
    /\ Configured("configure_channel") =>
          /\ ~Failed
          /\ \A i \in 1..6 : Logged("write", ChannelWrites(last.args[1])[i])
          /\ \A i \in 1..Len(calls) :
                StartsWith(calls[i].arg, "C" \o ToString(last.args[1].channel) \o ":")
    /\ Configured("configure_timebase") =>
          /\ ~Failed
          /\ \A i \in 1..2 : Logged("write", TimebaseWrites(last.args[1])[i])
    /\ Configured("configure_trigger") =>
          /\ ~Failed
          /\ \A i \in 1..3 : Logged("write", TriggerWrites(last.args[1])[i])
          /\ \A i \in 1..Len(calls) :
                StartsWith(calls[i].arg, "TRHLD ") =>
                    calls[i].arg = "TRHLD " \o last.args[1].holdoff[1]

\* channel 1 enabled at 2V per division
C18_Witness ==
    /\ Configured("configure_channel") /\ ~Failed
    /\ last.args[1].channel = 1 /\ last.args[1].voltage_div = "2V" /\ last.args[1].enabled
    /\ Logged("write", "C1:TRA ON") /\ Logged("write", "C1:VDIV 2V")

\* the writes of a configuration call are exactly the commands of its method in their
\* order, a trigger configuration ending with the holdoff command when holdoff_sent
ConfiguredInOrder(holdoff_sent) ==
    /\ Configured("configure_channel") =>
          AllWrites /\ Written = ChannelWrites(last.args[1])
    /\ Configured("configure_timebase") =>
          AllWrites /\ Written = TimebaseWrites(last.args[1])
    /\ Configured("configure_trigger") =>
          /\ AllWrites
          /\ SubSeq(Written, 1, 3) = TriggerWrites(last.args[1])
          /\ IF holdoff_sent
             THEN Len(calls) = 4 /\ StartsWith(Written[4], "TRHLD ")
             ELSE Len(calls) = 3

\* C19 as stated: configure_channel sends trace enable, volts per division, offset,
\* coupling, probe ratio and bandwidth limit in this order, configure_timebase time
\* per division then delay, configure_trigger trigger select, mode and level and then
\* a holdoff command if and only if the configuration holds a holdoff value.
C19_OrderHoldoffSupplied ==
    ConfiguredInOrder(Called("configure_trigger") /\ last.args[1].holdoff # << >>)

\* C19: the same orders, the holdoff command sent if and only if the configuration's
\* holdoff is a string that is not empty; neither None nor "" sends one.
C19_CommandOrder ==
    ConfiguredInOrder(/\ Called("configure_trigger")
                      /\ last.args[1].holdoff # << >>
                      /\ last.args[1].holdoff # << "" >>)

\* a trigger configuration whose holdoff is the empty string, three commands sent
C19_Witness ==
    /\ Configured("configure_trigger") /\ ~Failed
    /\ last.args[1].holdoff = << "" >>
    /\ Written = TriggerWrites(last.args[1])

\* the position of the first command of the channel configuration that fails
FirstFailing ==
    CHOOSE k \in 1..6 :
        /\ ChannelWrites(last.args[1])[k] \in last.env.wfail
        /\ \A j \in 1..(k - 1) : ChannelWrites(last.args[1])[j] \notin last.env.wfail

\* C20: when the k-th of the six writes of configure_channel fails in the transport,
\* the k-1 commands before it were sent, in order and once each, the k-th was tried
\* once, none of the later ones was sent, and the call raises the write error.
C20_NotAtomic ==
    (/\ Called("configure_channel") /\ ReachedBefore
     /\ \E k \in 1..6 : ChannelWrites(last.args[1])[k] \in last.env.wfail) =>
        /\ Failed
        /\ last.exc = OscilloscopeError("Write failed: " \o VisaIOError.msg)
        /\ AllWrites
        /\ Written = SubSeq(ChannelWrites(last.args[1]), 1, FirstFailing)

\* the third write fails: two commands sent, the third tried, three left out
C20_Witness ==
    /\ Called("configure_channel") /\ ReachedBefore /\ Failed
    /\ last.env.wfail = {ChannelWrites(last.args[1])[3]}
    /\ Len(calls) = 3

\* the call as it would have gone had the cleanup write not failed
CleanupGoesThrough(m, channel, num_points, env) ==
    capture_waveform(m, channel, num_points, [env EXCEPT !.wfail = @ \ {WFSU(0)}])

\* the steps of the transfer in the log of the call: the writes before the cleanup and
\* the read
TransferStep(c) == c.call = "read_raw" \/ (c.call = "write" /\ c.arg # WFSU(0))

\* C21: a capture_waveform call that enters its transfer step tries the write that
\* turns the decimation off after every step of the transfer, whether the transfer
\* succeeded or failed, and a failure of that write is swallowed: the call returns the
\* data or raises the error it would have returned or raised had the write gone
\* through.
C21_CleanupAlwaysTriedAndSwallowed ==
    [][(last = Idle /\ last'.op = "capture_waveform"
        /\ last'.pre.connected /\ last'.pre.open) =>
          /\ \E i \in 1..Len(calls') :
                /\ calls'[i] = [call |-> "write", arg |-> WFSU(0)]
                /\ \A j \in 1..Len(calls') : TransferStep(calls'[j]) => j < i
          /\ last'.exc = CleanupGoesThrough(Machine, last'.args[1], last'.args[2],
                                            last'.env).exc
          /\ (last'.exc = None) =>
                result' = CleanupGoesThrough(Machine, last'.args[1], last'.args[2],
                                             last'.env).ret]_vars

\* the cleanup write failed after a good transfer and the samples were returned
C21_Witness ==
    /\ Called("capture_waveform") /\ ReachedBefore
    /\ WFSU(0) \in last.env.wfail
    /\ Logged("write", WFSU(0))
    /\ ~Failed /\ result.num_points = 3

\* the queries made during the call from the i-th entry of the log on, in order
RECURSIVE QueriedFrom(_)
QueriedFrom(i) ==
    IF i > Len(calls) THEN << >>
    ELSE (IF calls[i].call = "query" THEN <<calls[i].arg>> ELSE << >>) \o QueriedFrom(i + 1)

Queried == QueriedFrom(1)

\* C22: measure_channel issues eight queries, for frequency, period, peak to peak,
\* amplitude, maximum, minimum, mean and RMS; answered with replies of the form
\* C<ch>:PAVA <NAME>,<value><unit>, it returns a record for the requested channel whose
\* frequency is the value of the frequency reply, 1000.0 for C1:PAVA FREQ,1000.0HZ, and
\* whose peak_to_peak is the value of the PKPK reply.
C22_MeasureFromPavaReplies ==
    (/\ Called("measure_channel") /\ ReachedBefore
     /\ FreqReply = Ok("C1:PAVA FREQ,1000.0HZ")
     /\ \A a \in Attrs : Kind(a) = "value") =>
        /\ ~Failed
        /\ Len(Queried) = 8
        /\ result.channel = last.args[1]
        /\ result.frequency = FInt(1000)
        /\ result.peak_to_peak = FInt(5)

\* C23: the driver as a context manager. Entering connects a driver that is not
\* connected and does not connect again one that is; in the block the driver is
\* connected; leaving the block, normally or by an exception, closes the session and
\* disconnects the driver, and the exception of the block goes on to the caller.
C23_ContextManager ==
    /\ Called("__enter__") =>
          /\ ~Failed => connected
          /\ last.pre.connected => (calls = << >> /\ ~Failed /\ instrument = last.pre.session)
          /\ (~last.pre.connected /\ ~Failed) => Logged("open_resource", resource_name)
    /\ Called("__exit__") =>
          /\ ~connected
          /\ instrument # 0 => ~sessions[instrument].open
          /\ last.args[1] # None => last.exc = last.args[1]

\* C24: a driver constructed with a resource address only, no timeout given and
\* auto_connect not set, is not connected, keeps the address given, and has a timeout of
\* 5000 milliseconds.
C24_ConstructedDefaults ==
    (Called("__init__") /\ last.args[2] = << >>) =>
        /\ ~connected
        /\ resource_name = last.args[1]
        /\ timeout = 5000

\* the reply of the instrument to the scale query of the captured channel
ChannelVdivReply ==
    last.env.reply["C" \o ToString(last.args[1]) \o ":VDIV ?"]

\* C25: capture_waveform scales the samples by the volts per division of the channel it
\* captures: the scale queried for the decoding is that of the captured channel, and
\* with that channel at 1 V per division a sample is its count divided by 25, whatever
\* the scale of another channel.
C25_ScaleOfCapturedChannel ==
    (/\ CaptureWentThrough
     /\ last.env.raw.data = Bytes("C" \o ToString(last.args[1]) \o ":WF DAT2,#9000000003")
                            \o Payload \o <<10, 10>>
     /\ ChannelVdivReply = Ok("C" \o ToString(last.args[1]) \o ":VDIV 1.00E+00V")
     /\ last.args[1] = 1 => last.env.reply["C1:VDIV?"] = ChannelVdivReply) =>
        /\ StartsWith(Queried[1], "C" \o ToString(last.args[1]) \o ":VDIV")
        /\ ~Failed
        /\ result.data_points =
              [i \in 1..Len(Payload) |->
                  FDiv(FInt(IF Payload[i] < 128 THEN Payload[i] ELSE Payload[i] - 256),
                       FInt(25))]

\* the position of the raw read in the log of the call
ReadAt == CHOOSE i \in 1..Len(calls) : calls[i].call = "read_raw"

\* the timeout in force during the raw read of the call: the one set last before it
TimeoutAtRead ==
    LET j == CHOOSE j \in 1..(ReadAt - 1) :
                 /\ calls[j].call = "set_timeout"
                 /\ \A k \in (j + 1)..(ReadAt - 1) : calls[k].call # "set_timeout"
    IN  CHOOSE v \in {ScreenTimeout, WaveformTimeout, last.pre.timeout} :
            calls[j].arg = ToString(v)

\* C26: capture_screen raises the read timeout and never lowers it: whatever the
\* driver's timeout, the timeout in force while the screen dump is read is at least the
\* timeout in force before the call.
C26_ScreenTimeoutNotLowered ==
    (Called("capture_screen") /\ ReachedBefore
     /\ \E i \in 1..Len(calls) : calls[i].call = "read_raw") =>
        TimeoutAtRead >= last.pre.timeout

\* the decimation level the lookup gives for n points
Level(n) ==
    CASE n <= 200 -> "10"
      [] n > 200 /\ n <= 500 -> "6"
      [] n > 500 /\ n <= 1000 -> "4"
      [] n > 1000 -> "2"

\* what the call sent to and read from the instrument, from the i-th entry of the log on
RECURSIVE TransportFrom(_)
TransportFrom(i) ==
    IF i > Len(calls) THEN << >>
    ELSE (IF calls[i].call \in {"write", "query", "read_raw"} THEN <<calls[i]>> ELSE << >>)
         \o TransportFrom(i + 1)

\* C27: capture_waveform takes the decimation level from the requested point count, 10
\* up to 200 points, 6 up to 500, 4 up to 1000 and 2 above, and sends in this order the
\* decimation command with that level, the reduced memory depth command and the
\* waveform request of the channel, and only then reads the raw reply, with the timeout
\* of 60000 ms in force during the read.
C27_DecimationAndOrder ==
    (/\ Called("capture_waveform") /\ ReachedBefore
     /\ last.env.wfail \subseteq {"WFSU SP,0,NP,0,FP,0"}) =>
        /\ Len(TransportFrom(1)) >= 4
        /\ SubSeq(TransportFrom(1), 1, 4) =
              << [call |-> "write",
                  arg |-> "WFSU SP," \o Level(last.args[2]) \o ",NP,0,FP,0"],
                 [call |-> "write", arg |-> "MSIZ 7K"],
                 [call |-> "write", arg |-> "C" \o ToString(last.args[1]) \o ":WF? DAT2"],
                 [call |-> "read_raw", arg |-> ""] >>
        /\ TimeoutAtRead = 60000

\* 201 points asked for: level 6
C27_Witness ==
    /\ Called("capture_waveform") /\ ReachedBefore /\ ~Failed
    /\ last.args[2] = 201
    /\ TransportFrom(1)[1] = [call |-> "write", arg |-> "WFSU SP,6,NP,0,FP,0"]
    /\ TransportFrom(1)[4].call = "read_raw"

\* the log entries of the dashboard that are chat messages sent with the screenshot
WithImage(i) == calls[i].call = "execute_with_image"

\* the screenshot is marked for the assistant at entry k of the log and is still the
\* pending one at entry j: no capture, clearing or new marking in between
MarkedSince(k, j) ==
    /\ calls[k].call = "send_to_ai"
    /\ \A l \in (k + 1)..(j - 1) : calls[l].call \notin {"send_to_ai", "capture", "clear"}

\* C28: in the dashboard a screenshot marked for the assistant goes out with at most
\* one chat message, the first one sent with the Claude backend selected after the
\* marking; the messages after it are text only until the screenshot is marked again,
\* and a new capture or a clearing removes the pending screenshot and the sent flag.
C28_ScreenshotSentOnce ==
    /\ \A i, j \in 1..Len(calls) :
          (i < j /\ WithImage(i) /\ WithImage(j)) =>
              \E k \in (i + 1)..(j - 1) : calls[k].call = "send_to_ai"
    /\ \A j \in 1..Len(calls) :
          WithImage(j) =>
              \E k \in 1..(j - 1) :
                  /\ MarkedSince(k, j)
                  /\ \A l \in (k + 1)..(j - 1) :
                        calls[l] # [call |-> "execute", arg |-> "claude"]
    /\ \A j \in 1..Len(calls) :
          calls[j] = [call |-> "execute", arg |-> "claude"] =>
              \A k \in 1..(j - 1) :
                  MarkedSince(k, j) => \E i \in (k + 1)..(j - 1) : WithImage(i)
    /\ (calls # << >> /\ calls[Len(calls)].call \in {"capture", "clear"}) =>
          (session_state.screen_for_ai = << >> /\ session_state.screen_sent = << >>)

\* marked, sent with the next message to Claude, and the message after that text only
C28_Witness ==
    /\ Len(calls) >= 3
    /\ \E k \in 1..(Len(calls) - 2) :
          /\ calls[k].call = "send_to_ai"
          /\ calls[k + 1] = [call |-> "execute_with_image", arg |-> "claude"]
          /\ calls[k + 2] = [call |-> "execute", arg |-> "claude"]
    /\ session_state.screen_sent = << TRUE >>

\* the instrument sessions the driver opened that are still open
OpenSessions == {i \in 1..Len(sessions) : sessions[i].open}

\* C29: whatever connect and disconnect calls were made on the driver, a connect on a
\* connected driver and a connect whose identification query fails among them, at most
\* one instrument session is open, none is open once a connect has failed and left the
\* driver disconnected, and none is open once disconnect has returned.
C29_NoSessionLeak ==
    /\ Cardinality(OpenSessions) <= 1
    /\ (Called("connect") /\ Failed /\ ~connected) => OpenSessions = {}
    /\ (Called("disconnect") /\ ~Failed) => OpenSessions = {}

\* the times per division the agent is called with that are a number and a unit of
\* time, and the value of the 1-2-5 ladder nearest to each, as the command carries it
NearestOnLadder ==
    [t \in {"100US", "3MS", "7NS", "150S", "0.4NS", "1.5S", "2 ms"} |->
        CASE t = "100US" -> "1.000000E-04" [] t = "3MS" -> "2.000000E-03"
          [] t = "7NS" -> "5.000000E-09" [] t = "150S" -> "1.000000E+02"
          [] t = "0.4NS" -> "1.000000E-09" [] t = "1.5S" -> "1.000000E+00"
          [] t = "2 ms" -> "2.000000E-03"]

\* the delay of the call, "0S" when none is passed, and the texts that denote it
DelayOfCall == IF Len(last.args) = 1 THEN "0S" ELSE last.args[2]

SameDelay ==
    [d \in {"0S", "1MS", "-2MS", "30US"} |->
        CASE d = "0S" -> {"0S", "0.000000E+00"} [] d = "1MS" -> {"1MS", "1.000000E-03"}
          [] d = "-2MS" -> {"-2MS", "-2.000000E-03"}
          [] d = "30US" -> {"30US", "3.000000E-05"}]

\* C30: a _set_timebase call that goes through on a reached instrument sends the time
\* per division snapped to the nearest value of the 1-2-5 ladder between 1 ns and 100 s,
\* and then a delay command that carries the delay of the call with its value
\* unchanged: zero for the default delay "0S".
C30_OnlyTimeDivSnapped ==
    (Called("_set_timebase") /\ ReachedBefore /\ ~Failed
        /\ last.args[1] \in DOMAIN NearestOnLadder) =>
        /\ Len(calls) >= 2
        /\ calls[1] = [call |-> "write", arg |-> "TDIV " \o NearestOnLadder[last.args[1]]]
        /\ calls[2].call = "write"
        /\ \E v \in SameDelay[DelayOfCall] : calls[2].arg = "TRDL " \o v

====
